---- MODULE Spec2Model ----
(***************************************************************************)
(* GitHubRepoStats: the merge of freshly fetched metric rows with stored   *)
(* history (db.py append_new_data), the two store adapters (db.py          *)
(* save_to_mongodb / save_to_cosmosdb), the per-repository pipeline        *)
(* (report.py retrieve_and_process_stats) and the scheduled job            *)
(* (function_app.py main).                                                 *)
(*                                                                         *)
(* Values.  A cell of a row is a tagged tuple, so that cells of different  *)
(* Python types compare unequal instead of being incomparable:             *)
(*   <<"None">>            None                                            *)
(*   <<"NaN">>             float('nan'), pandas' missing cell              *)
(*   <<"NaT">>             pandas.NaT                                      *)
(*   <<"int", n>>          the integer n (10 and 10.0 are not told apart:  *)
(*                         db.py 174-176 casts back, Mongo compares them   *)
(*                         numerically)                                    *)
(*   <<"str", s>>          the string s                                    *)
(*   <<"uuid", n>>         the n-th string uuid.uuid4() returned           *)
(*   <<"mdy", m, d, y>>    the text 'MM-DD-YYYY'                           *)
(*   <<"iso", y, m, d>>    the text 'YYYY-MM-DD...' of a wire timestamp    *)
(*   <<"ts", y, m, d>>     a pandas Timestamp / datetime at midnight       *)
(* A row (dict) is a function from field names to cells; a field the dict  *)
(* lacks is outside its DOMAIN.                                            *)
(***************************************************************************)
EXTENDS Integers, Sequences, FiniteSets, TLC

VARIABLES
    mOld,       \* merge harness: rows fetched from the store (old_df)
    mNew,       \* merge harness: new_data
    mOut,       \* merge harness: result of append_new_data(mOld, mNew)
    mAgain,     \* merge harness: result of append_new_data(mOut rows, [])
    mPc,        \* merge harness: "idle" | "input" | "merged" | "again"
    mongo,      \* the repository's MongoDB database: collection name -> documents
    cosmos,     \* the repository's Cosmos DB database: container name -> documents
    uuidCount,  \* the number of uuid.uuid4() calls so far (each returns a new id)
    calls,      \* adapter harness: the save_data calls made, with their outcomes
    fetched,    \* adapter harness: the rows the last fetch returned, per backend
    eventDates, \* normalizer harness: the dates of the fetched star / fork events
    starsOut,   \* normalizer harness: result of process_stars_data
    forksOut,   \* normalizer harness: result of process_forks_data
    nPc,        \* normalizer harness: "idle" | "input" | "stars" | "forks"
    dbType,     \* --db-type of the command line runs: "mongodb" | "cosmosdb"
    runs,       \* the number of retrieve_and_process_stats runs made
    last,       \* the last run: what the API answered and how the run went
    repos,      \* scheduled job: the (owner, repo) pairs read from repos.csv
    idx,        \* scheduled job: the position of the loop over repos
    processed_count,    \* scheduled job: function_app.py 30, 37
    attempted,  \* scheduled job: per repository reached, how its call ended
    jobLog,     \* scheduled job: the closing message logged
    jPc,        \* scheduled job: "idle" | "start" | "loop" | "report" | "done"
    wStamps,    \* wire harness: the timestamp of each wire record, or Absent
    wNorm,      \* wire harness: what the normalizer returned or raised
    wMerged,    \* wire harness: what append_new_data returned for its rows
    wPc,        \* wire harness: "idle" | "input" | the stream normalized | "merged"
    dbs,        \* several repositories: the database of each database name
    pgPage,     \* paginated fetch: the page requested next
    pgItems,    \* paginated fetch: the number of events collected
    pgPc,       \* paginated fetch: the function called and where it is
    csv_file,   \* checkpush: the rows of the input CSV and what the API answers
    access_csv, \* checkpush: the lines of repos_with_push_access.csv
    no_access_file,     \* checkpush: the lines of repos_without_push_access.txt
    rowIdx,     \* checkpush: the row the loop of the script is at
    cpRuns,     \* checkpush: the number of times the script was started
    cpPc,       \* checkpush: "idle" | "loop" | "done" | "crashed"
    mgColls,    \* migration: the documents of each MongoDB collection
    mgCosmos,   \* migration: the documents of each Cosmos container, by id
    mgTask,     \* migration: the task of each collection in the pool
    mgTrace,    \* migration: per collection, how each document it reached went
    mgRuns,     \* migration: the number of migrate_database calls started
    mgPc        \* migration: "idle" | "pool" | "returned"

vars == <<mOld, mNew, mOut, mAgain, mPc, mongo, cosmos, uuidCount, calls, fetched,
          eventDates, starsOut, forksOut, nPc, dbType, runs, last,
          repos, idx, processed_count, attempted, jobLog, jPc,
          wStamps, wNorm, wMerged, wPc, dbs, pgPage, pgItems, pgPc,
          csv_file, access_csv, no_access_file, rowIdx, cpRuns, cpPc,
          mgColls, mgCosmos, mgTask, mgTrace, mgRuns, mgPc>>

mergeVars == <<mOld, mNew, mOut, mAgain, mPc>>
storeVars == <<mongo, cosmos, uuidCount>>
adapterVars == <<calls, fetched>>
normVars == <<eventDates, starsOut, forksOut, nPc>>
runVars == <<dbType, runs, last>>
jobVars == <<repos, idx, processed_count, attempted, jobLog, jPc>>
wireVars == <<wStamps, wNorm, wMerged, wPc>>
repoVars == <<dbs>>
pageVars == <<pgPage, pgItems, pgPc>>
pushVars == <<csv_file, access_csv, no_access_file, rowIdx, cpRuns, cpPc>>
migVars == <<mgColls, mgCosmos, mgTask, mgTrace, mgRuns, mgPc>>

(***************************************************************************)
(* Cells                                                                   *)
(***************************************************************************)
None == <<"None">>
NaN == <<"NaN">>
NaT == <<"NaT">>
IntV(n) == <<"int", n>>
StrV(s) == <<"str", s>>
Uuid(n) == <<"uuid", n>>
Mdy(m, d, y) == <<"mdy", m, d, y>>
Iso(y, m, d) == <<"iso", y, m, d>>
Ts(y, m, d) == <<"ts", y, m, d>>

Tag(v) == v[1]

\* pandas.isna on a scalar
IsNa(v) == v \in {None, NaN, NaT}

IsLeap(y) == (y % 4 = 0 /\ y % 100 # 0) \/ y % 400 = 0

DaysIn(m, y) ==
    IF m = 2 THEN (IF IsLeap(y) THEN 29 ELSE 28)
    ELSE IF m \in {4, 6, 9, 11} THEN 30 ELSE 31

ValidDate(y, m, d) == m \in 1..12 /\ d \in 1..DaysIn(m, y)

\* pd.to_datetime(x, errors='coerce') on one cell: month-first text and ISO
\* text parse to a Timestamp, a Timestamp stays, everything else is NaT.
ToDatetime(v) ==
    IF Tag(v) = "mdy" /\ ValidDate(v[4], v[2], v[3]) THEN Ts(v[4], v[2], v[3])
    ELSE IF Tag(v) = "iso" /\ ValidDate(v[2], v[3], v[4]) THEN Ts(v[2], v[3], v[4])
    ELSE IF Tag(v) = "ts" THEN v
    ELSE NaT

\* a mutant of StrftimeMdy: the format '%d-%m-%Y'
StrftimeDmy(t) == <<"mdy", t[4], t[3], t[2]>>

\* Timestamp.strftime('%m-%d-%Y')
StrftimeMdy(t) == Mdy(t[3], t[4], t[2])

\* Series.dt.strftime('%m-%d-%Y') on one cell: NaT becomes NaN
DtStrftimeMdy(t) == IF t = NaT THEN NaN ELSE StrftimeMdy(t)

(***************************************************************************)
(* DataFrames: [columns |-> set of names, rows |-> sequence of rows], every *)
(* row a function on columns.                                              *)
(***************************************************************************)
EmptyFrame == [columns |-> {}, rows |-> <<>>]

KeysOf(data) == UNION {DOMAIN data[i] : i \in 1..Len(data)}

Reindex(row, cols) == [c \in cols |-> IF c \in DOMAIN row THEN row[c] ELSE NaN]

\* pd.DataFrame(list of dicts): the columns are the union of the keys, a key a
\* dict lacks is NaN in its row.
DataFrame(data) ==
    [columns |-> KeysOf(data),
     rows |-> [i \in 1..Len(data) |-> Reindex(data[i], KeysOf(data))]]

\* df.to_dict('records')
ToRecords(df) == df.rows

\* pd.concat([a, b], ignore_index=True)
Concat(a, b) ==
    LET cols == a.columns \cup b.columns
    IN [columns |-> cols,
        rows |-> [i \in 1..(Len(a.rows) + Len(b.rows)) |->
                    IF i <= Len(a.rows) THEN Reindex(a.rows[i], cols)
                    ELSE Reindex(b.rows[i - Len(a.rows)], cols)]]

\* df[col] = pd.to_datetime(df[col], errors='coerce').dt.strftime('%m-%d-%Y'),
\* guarded by `if col in df.columns`
FormatDateColumn(df, col) ==
    IF col \in df.columns
    THEN [df EXCEPT !.rows = [i \in 1..Len(df.rows) |->
            [df.rows[i] EXCEPT ![col] = DtStrftimeMdy(ToDatetime(df.rows[i][col]))]]]
    ELSE df

\* the subsequence of s at the positions in at, in order
SubSeqAt(s, at) ==
    [k \in 1..Cardinality(at) |->
        s[CHOOSE i \in at : Cardinality({j \in at : j < i}) = k - 1]]

\* a mutant of KeepLast: keep='first'
KeepFirst(rows, col, i) ==
    \A j \in 1..(i - 1) : rows[j][col] # rows[i][col]

\* drop_duplicates(subset=[col], keep='last') keeps row i when no later row
\* has the same cell in col (missing cells count as equal to each other)
KeepLast(rows, col, i) ==
    \A j \in (i + 1)..Len(rows) : rows[j][col] # rows[i][col]

\* a mutant of DropDuplicates: nothing is dropped
DropNothing(df, col) == df

DropDuplicates(df, col) ==
    [df EXCEPT !.rows =
        SubSeqAt(df.rows, {i \in 1..Len(df.rows) : KeepLast(df.rows, col, i)})]

\* order of two cells of a sorted column: text in lexicographic order (the
\* digits of 'MM-DD-YYYY' are zero padded, so field by field), missing last
CellLess(a, b) ==
    IF IsNa(a) THEN FALSE
    ELSE IF IsNa(b) THEN TRUE
    ELSE \/ a[2] < b[2]
         \/ a[2] = b[2] /\ a[3] < b[3]
         \/ a[2] = b[2] /\ a[3] = b[3] /\ a[4] < b[4]

\* df.sort_values(by=col): ascending, NaN last
SortValues(df, col) ==
    LET n == Len(df.rows)
        Before(j, i) == \/ CellLess(df.rows[j][col], df.rows[i][col])
                        \/ /\ ~CellLess(df.rows[i][col], df.rows[j][col])
                           /\ j < i
        Rank(i) == 1 + Cardinality({j \in 1..n : Before(j, i)})
    IN [df EXCEPT !.rows = [k \in 1..n |->
            df.rows[CHOOSE i \in 1..n : Rank(i) = k]]]

\* append_new_data after the fetch of old_df: raised is "none" or the
\* exception drop_duplicates raises when the frame has no date column
AppendNewData(oldRows, newData, dateColumn) ==
    LET new_df == FormatDateColumn(DataFrame(newData), dateColumn)
        old_df == FormatDateColumn(DataFrame(oldRows), dateColumn)
        combined_df == Concat(old_df, new_df)
    IN IF dateColumn \notin combined_df.columns
       THEN [raised |-> "KeyError", df |-> EmptyFrame]
       ELSE [raised |-> "none",
             df |-> SortValues(DropDuplicates(combined_df, dateColumn), dateColumn)]

(***************************************************************************)
(* Store adapters.  A collection / container is the sequence of its        *)
(* documents in insertion order.  Whether a database or container exists   *)
(* is not part of the state: a missing one reads as empty (db.py 42-44)    *)
(* and is created on the first save (db.py 70-99).                         *)
(***************************************************************************)
\* the two fields every row is stamped with
StampOf(owner, repo) ==
    [k \in {"Repo Owner", "Repo Name"} |->
        IF k = "Repo Owner" THEN StrV(owner) ELSE StrV(repo)]

Overlay(a, b) ==
    [k \in DOMAIN a \cup DOMAIN b |-> IF k \in DOMAIN b THEN b[k] ELSE a[k]]

Without(row, fields) == [k \in DOMAIN row \ fields |-> row[k]]

Oid(n) == <<"oid", n>>
Rid(n) == <<"rid", n>>

\* collection.find({}, {'_id': 0})
FetchAllDataFromMongodb(coll) ==
    [i \in 1..Len(coll) |-> Without(coll[i], {"_id"})]

\* container.query_items("SELECT * FROM c"): the documents as stored
FetchAllDataFromCosmosdb(cont) == cont

\* the fetch at the head of append_new_data, by db_type
FetchAllData(docs, db_type) ==
    IF db_type = "mongodb"
    THEN [raised |-> "none", rows |-> FetchAllDataFromMongodb(docs)]
    ELSE IF db_type = "cosmosdb"
    THEN [raised |-> "none", rows |-> FetchAllDataFromCosmosdb(docs)]
    ELSE [raised |-> "ValueError", rows |-> <<>>]

unique_field_map ==
    [TrafficStats |-> "Date", GitClones |-> "Date",
     ReferringSites |-> "Referring site", PopularContent |-> "Path",
     Stars |-> "Date", Forks |-> "Date", About |-> "Repo Name"]

\* dict.get(f)
Get(item, f) == IF f \in DOMAIN item THEN item[f] ELSE None

\* the filter {f: v}: a null matches a missing field too
MongoMatches(doc, f, v) ==
    IF v = None THEN (f \notin DOMAIN doc \/ doc[f] = None)
    ELSE (f \in DOMAIN doc /\ doc[f] = v)

Min(S) == CHOOSE x \in S : \A y \in S : x <= y

\* collection.update_one({f: item.get(f)}, {"$set": item}, upsert=True)
UpdateOne(coll, f, item) ==
    LET v == Get(item, f)
        hits == {i \in 1..Len(coll) : MongoMatches(coll[i], f, v)}
    IN IF hits # {}
       THEN [coll EXCEPT ![Min(hits)] = Overlay(coll[Min(hits)], item)]
       ELSE Append(coll, Overlay(Overlay(("_id" :> Oid(Len(coll) + 1)), (f :> v)), item))

\* the loop of save_to_mongodb from item i on; failAt is the item whose write
\* the server fails (0: none).  passed counts the items handed to update_one.
RECURSIVE MongoWriteFrom(_, _, _, _, _)
MongoWriteFrom(coll, f, data, i, failAt) ==
    IF i > Len(data) THEN [raised |-> "none", docs |-> coll, passed |-> Len(data)]
    ELSE IF i = failAt THEN [raised |-> "PyMongoError", docs |-> coll, passed |-> i]
    ELSE MongoWriteFrom(UpdateOne(coll, f, data[i]), f, data, i + 1, failAt)

SaveToMongodb(coll, collection_name, data, failAt) ==
    IF collection_name \notin DOMAIN unique_field_map
    THEN [raised |-> "ValueError", docs |-> coll, passed |-> 0]
    ELSE MongoWriteFrom(coll, unique_field_map[collection_name], data, 1, failAt)

\* convert_to_json_serializable on the cells of one item
ConvertCell(v) ==
    IF Tag(v) = "ts" THEN StrftimeMdy(v)
    ELSE IF v = NaN THEN StrV("nan")
    ELSE v

ConvertToJsonSerializable(item) == [k \in DOMAIN item |-> ConvertCell(item[k])]

\* json.dumps(item) succeeds
ValidateJson(item) == \A k \in DOMAIN item : Tag(item[k]) \notin {"ts", "NaT"}

NumericFields == {"Views", "Unique visitors", "Clones", "Unique cloners"}

\* `'id' not in item or pd.isna(item['id']) or item['id'] == "nan"`
NeedsId(item) ==
    \/ "id" \notin DOMAIN item
    \/ IsNa(item["id"])
    \/ item["id"] = StrV("nan")

\* the body of preprocess_data's loop for one item; uuid counts the calls of
\* uuid.uuid4() so far.  kind: "ok" (appended), "skip" (continue), "raise".
PreprocessItem(item0, owner, repo, uuid) ==
    LET stamped == Overlay(item0, StampOf(owner, repo))
        hasDate == "Date" \in DOMAIN stamped
        dateBad == hasDate /\ (IsNa(stamped["Date"]) \/ ToDatetime(stamped["Date"]) = NaT)
        dated == IF hasDate /\ ~dateBad
                 THEN [stamped EXCEPT !["Date"] = StrftimeMdy(ToDatetime(stamped["Date"]))]
                 ELSE stamped
        badNumber == \E f \in NumericFields \cap DOMAIN dated : dated[f] = NaN
        fetchedAt == IF "FetchedAt" \in DOMAIN dated
                   THEN [dated EXCEPT !["FetchedAt"] =
                            IF IsNa(dated["FetchedAt"]) \/ ToDatetime(dated["FetchedAt"]) = NaT
                            THEN None
                            ELSE StrftimeMdy(ToDatetime(dated["FetchedAt"]))]
                   ELSE dated
    IN IF dateBad THEN [kind |-> "skip", item |-> stamped, uuid |-> uuid]
       ELSE IF badNumber THEN [kind |-> "raise", item |-> dated, uuid |-> uuid]
       ELSE IF NeedsId(fetchedAt)
       THEN [kind |-> "ok", item |-> Overlay(fetchedAt, ("id" :> Uuid(uuid + 1))),
             uuid |-> uuid + 1]
       ELSE [kind |-> "ok", item |-> fetchedAt, uuid |-> uuid]

\* preprocess_data from item i on, processed_data so far in acc
RECURSIVE PreprocessFrom(_, _, _, _, _, _)
PreprocessFrom(data, i, owner, repo, uuid, acc) ==
    IF i > Len(data) THEN [raised |-> "none", data |-> acc, uuid |-> uuid]
    ELSE LET r == PreprocessItem(data[i], owner, repo, uuid)
         IN IF r.kind = "raise" THEN [raised |-> "ValueError", data |-> acc, uuid |-> r.uuid]
            ELSE PreprocessFrom(data, i + 1, owner, repo, r.uuid,
                                IF r.kind = "ok" THEN Append(acc, r.item) ELSE acc)

PreprocessData(data, owner, repo, uuid) == PreprocessFrom(data, 1, owner, repo, uuid, <<>>)

\* the Python type a validator's isinstance sees
IsStr(v) == Tag(v) \in {"str", "mdy", "iso", "uuid"}
IsInt(v) == Tag(v) = "int"
IsStrOrNone(v) == IsStr(v) \/ v = None

\* required_fields of each validate_*_schema, with the type each must have:
\* "str", "int" or "strnone" (str or None)
SchemaOf(name) ==
    IF name = "About" THEN
        [f \in {"Repo Owner", "Repo Name", "About"} |->
            IF f = "About" THEN "strnone" ELSE "str"]
    ELSE IF name = "TrafficStats" THEN
        [f \in {"Date", "Views", "Unique visitors", "Repo Owner", "Repo Name"} |->
            IF f \in {"Views", "Unique visitors"} THEN "int" ELSE "str"]
    ELSE IF name = "GitClones" THEN
        [f \in {"Date", "Clones", "Unique cloners", "Repo Owner", "Repo Name"} |->
            IF f \in {"Clones", "Unique cloners"} THEN "int" ELSE "str"]
    ELSE IF name = "ReferringSites" THEN
        [f \in {"Referring site", "Views", "Unique visitors", "FetchedAt",
                "Repo Owner", "Repo Name"} |->
            IF f \in {"Views", "Unique visitors"} THEN "int" ELSE "strnone"]
    ELSE IF name = "PopularContent" THEN
        [f \in {"Path", "Title", "Views", "Unique visitors", "FetchedAt",
                "Repo Owner", "Repo Name"} |->
            IF f \in {"Views", "Unique visitors"} THEN "int" ELSE "strnone"]
    ELSE IF name = "Stars" THEN
        [f \in {"Date", "Total Stars", "Repo Owner", "Repo Name"} |->
            IF f = "Total Stars" THEN "int" ELSE "str"]
    ELSE
        [f \in {"Date", "Total Forks", "Repo Owner", "Repo Name"} |->
            IF f = "Total Forks" THEN "int" ELSE "str"]

schema_validators ==
    {"TrafficStats", "GitClones", "ReferringSites", "PopularContent",
     "Stars", "Forks", "About"}

TypeOk(v, t) ==
    IF t = "str" THEN IsStr(v)
    ELSE IF t = "int" THEN IsInt(v)
    ELSE IsStrOrNone(v)

\* validate_<name>_schema(data)
ValidateSchema(name, data) ==
    \A i \in 1..Len(data) : \A f \in DOMAIN SchemaOf(name) :
        f \in DOMAIN data[i] /\ TypeOk(data[i][f], SchemaOf(name)[f])

\* container.upsert_item(item): replaces the document with the item's id,
\* else inserts; the server sets the system property _rid
UpsertItem(cont, item) ==
    LET hits == {i \in 1..Len(cont) : cont[i]["id"] = item["id"]}
    IN IF hits # {}
       THEN [cont EXCEPT ![Min(hits)] = Overlay(item, ("_rid" :> cont[Min(hits)]["_rid"]))]
       ELSE Append(cont, Overlay(item, ("_rid" :> Rid(Len(cont) + 1))))

\* the loop of save_to_cosmosdb from item i on; failAt as in MongoWriteFrom
RECURSIVE CosmosWriteFrom(_, _, _, _, _)
CosmosWriteFrom(cont, data, i, failAt, uuid) ==
    IF i > Len(data)
    THEN [raised |-> "none", docs |-> cont, passed |-> Len(data), uuid |-> uuid]
    ELSE IF ~ValidateJson(data[i])
    THEN CosmosWriteFrom(cont, data, i + 1, failAt, uuid)
    ELSE IF i = failAt
    THEN [raised |-> "CosmosHttpResponseError", docs |-> cont, passed |-> i, uuid |-> uuid]
    ELSE CosmosWriteFrom(UpsertItem(cont, data[i]), data, i + 1, failAt, uuid)

SaveToCosmosdb(cont, container_name, data, owner, repo, failAt, uuid) ==
    IF container_name \notin schema_validators
    THEN [raised |-> "ValueError", docs |-> cont, passed |-> 0, uuid |-> uuid]
    ELSE LET pre == PreprocessData(data, owner, repo, uuid)
         IN IF pre.raised # "none" \/ ~ValidateSchema(container_name, pre.data)
            THEN [raised |-> "ValueError", docs |-> cont, passed |-> 0, uuid |-> pre.uuid]
            ELSE CosmosWriteFrom(cont,
                    [i \in 1..Len(pre.data) |-> ConvertToJsonSerializable(pre.data[i])],
                    1, failAt, pre.uuid)

\* save_data: the dispatch on db_type; the result has the fields of
\* SaveToCosmosdb's
SaveData(docs, collection_name, data, db_type, owner, repo, failAt, uuid) ==
    IF db_type = "mongodb"
    THEN LET r == SaveToMongodb(docs, collection_name, data, failAt)
         IN [raised |-> r.raised, docs |-> r.docs, passed |-> r.passed, uuid |-> uuid]
    ELSE IF db_type = "cosmosdb"
    THEN SaveToCosmosdb(docs, collection_name, data, owner, repo, failAt, uuid)
    ELSE [raised |-> "ValueError", docs |-> docs, passed |-> 0, uuid |-> uuid]

(***************************************************************************)
(* Normalizers (report.py process_*_data).  A wire record is a function    *)
(* from the JSON keys it has to cells; a timestamp is the cell             *)
(* <<"iso", y, m, d>> (its time of day plays no part: only [:10], or the   *)
(* part before 'T', is used, and events order by date before time).        *)
(***************************************************************************)
\* datetime.strptime(text, '%Y-%m-%d'): the datetime, or NaT for ValueError
Strptime(v) ==
    IF Tag(v) = "iso" /\ ValidDate(v[2], v[3], v[4]) THEN Ts(v[2], v[3], v[4]) ELSE NaT

\* Python truthiness of item.get('timestamp')
Truthy(v) == ~IsNa(v) /\ v # StrV("")

\* process_about_data
ProcessAboutData(repo_info, owner, repo) ==
    Overlay(StampOf(owner, repo), ("About" :> Get(repo_info, "description")))

\* the rows of process_traffic_data / process_clones_data on the response to
\* get_github_data (None unless the status is 200): listKey is 'views' or
\* 'clones', countField / uniquesField the names of the two count columns
ProcessCountsData(data, listKey, countField, uniquesField, owner, repo) ==
    IF data.status_code # 200 \/ listKey \notin DOMAIN data.json
    THEN [raised |-> "none", rows |-> <<>>]
    ELSE LET items == data.json[listKey]
             bad == \E i \in 1..Len(items) :
                       /\ Truthy(Get(items[i], "timestamp"))
                       /\ Strptime(items[i]["timestamp"]) = NaT
         IN IF bad THEN [raised |-> "ValueError", rows |-> <<>>]
            ELSE [raised |-> "none",
                  rows |-> [i \in 1..Len(items) |->
                      Overlay(StampOf(owner, repo),
                          ("Date" :> (IF Truthy(Get(items[i], "timestamp"))
                                      THEN StrftimeMdy(Strptime(items[i]["timestamp"]))
                                      ELSE None))
                          @@ (countField :> Get(items[i], "count"))
                          @@ (uniquesField :> Get(items[i], "uniques")))]]

ProcessTrafficData(data, owner, repo) ==
    ProcessCountsData(data, "views", "Views", "Unique visitors", owner, repo)

ProcessClonesData(data, owner, repo) ==
    ProcessCountsData(data, "clones", "Clones", "Unique cloners", owner, repo)

\* order of two ISO timestamps as Python orders their text
IsoLess(a, b) ==
    \/ a[2] < b[2]
    \/ a[2] = b[2] /\ a[3] < b[3]
    \/ a[2] = b[2] /\ a[3] = b[3] /\ a[4] < b[4]

\* sorted(events, key=lambda x: x[field]) (a stable sort)
SortedBy(events, field) ==
    LET n == Len(events)
        Before(j, i) == \/ IsoLess(events[j][field], events[i][field])
                        \/ /\ ~IsoLess(events[i][field], events[j][field])
                           /\ j < i
        Rank(i) == 1 + Cardinality({j \in 1..n : Before(j, i)})
    IN [k \in 1..n |-> events[CHOOSE i \in 1..n : Rank(i) = k]]

\* a dict in insertion order: a sequence of <<key, value>>, keys distinct
DictHas(d, k) == \E i \in 1..Len(d) : d[i][1] = k

DictGet(d, k, default) ==
    IF DictHas(d, k) THEN d[CHOOSE i \in 1..Len(d) : d[i][1] = k][2] ELSE default

\* d[k] = v
DictSet(d, k, v) ==
    IF DictHas(d, k)
    THEN [i \in 1..Len(d) |-> IF d[i][1] = k THEN <<k, v>> ELSE d[i]]
    ELSE Append(d, <<k, v>>)

\* the loop that fills cumulative_count from sorted event i on
RECURSIVE CumulativeFrom(_, _, _, _, _)
CumulativeFrom(sorted, field, i, total, cumulative_count) ==
    IF i > Len(sorted) THEN cumulative_count
    ELSE CumulativeFrom(sorted, field, i + 1, total + 1,
                        DictSet(cumulative_count, sorted[i][field], total + 1))

\* the value report.py 368 / 390 stores as the total of a date:
\* cumulative_count[date] - (cumulative_count.get(date, 0) - 1)
TotalOf(cumulative_count, date) ==
    DictGet(cumulative_count, date, 0) - (DictGet(cumulative_count, date, 0) - 1)

\* process_stars_data / process_forks_data: field is 'starred_at' /
\* 'created_at', totalField 'Total Stars' / 'Total Forks'
ProcessCumulativeData(events, field, totalField, owner, repo) ==
    IF \E i \in 1..Len(events) : field \notin DOMAIN events[i]
    THEN [raised |-> "KeyError", rows |-> <<>>]
    ELSE LET cumulative_count == CumulativeFrom(SortedBy(events, field), field, 1, 0, <<>>)
         IN IF \E i \in 1..Len(cumulative_count) : Strptime(cumulative_count[i][1]) = NaT
            THEN [raised |-> "ValueError", rows |-> <<>>]
            ELSE [raised |-> "none",
                  rows |-> [i \in 1..Len(cumulative_count) |->
                      Overlay(StampOf(owner, repo),
                          ("Date" :> StrftimeMdy(Strptime(cumulative_count[i][1])))
                          @@ (totalField :>
                                IntV(TotalOf(cumulative_count, cumulative_count[i][1]))))]]

ProcessStarsData(stars_data, owner, repo) ==
    ProcessCumulativeData(stars_data, "starred_at", "Total Stars", owner, repo)

ProcessForksData(forks_data, owner, repo) ==
    ProcessCumulativeData(forks_data, "created_at", "Total Forks", owner, repo)

(***************************************************************************)
(* The pipeline of one repository: report.py retrieve_and_process_stats.   *)
(* A run is the record [docs, uuid, log, error, failed, exported]: the     *)
(* repository's database, the uuid count, the stages completed so far as   *)
(* <<stage, stream>>, the exception caught at report.py 107 ("none": the   *)
(* try block ran to its end), the stream whose save raised it, and the     *)
(* streams handed to the export.                                           *)
(***************************************************************************)
\* the order of the save_data calls, report.py 78-91
SaveOrder == <<"About", "TrafficStats", "GitClones", "Stars", "Forks">>

\* the keys of the dataframes dictionary, report.py 96-102
ExportedStreams == {"About", "TrafficStats", "GitClones", "Stars", "Forks"}

\* the stages of report.py 47-75 in program order
StagesBeforeSave ==
    << <<"fetch", "About">>, <<"normalize", "About">>,
       <<"fetch", "TrafficStats">>, <<"fetch", "GitClones">>,
       <<"fetch", "ReferringSites">>, <<"fetch", "PopularContent">>,
       <<"fetch", "Stars">>, <<"fetch", "Forks">>,
       <<"normalize", "ReferringSites">>, <<"normalize", "PopularContent">>,
       <<"normalize", "Stars">>, <<"normalize", "Forks">>,
       <<"normalize", "TrafficStats">>, <<"merge", "TrafficStats">>,
       <<"normalize", "GitClones">>, <<"merge", "GitClones">> >>

\* the position of a stage in StagesBeforeSave
StageIndex(stage) ==
    CHOOSE i \in 1..Len(StagesBeforeSave) : StagesBeforeSave[i] = stage

\* the run in which the stage raised err: the stages before it are done
AbortedAt(run, stage, err) ==
    [run EXCEPT !.log = SubSeq(StagesBeforeSave, 1, StageIndex(stage) - 1),
                !.error = err]

\* a mutant of AfterSave: the exception of a save is logged where it happens
\* and the run goes on with the next stream
AfterSaveGoesOn(run, name, r, db_type) ==
    IF r.raised # "none"
    THEN [run EXCEPT !.docs[name] = r.docs, !.uuid = r.uuid, !.failed = name]
    ELSE [run EXCEPT !.docs[name] = r.docs, !.uuid = r.uuid,
                     !.log = @ \o << <<"persist", name>> >>]

\* the run after save_data for the stream `name` returned r: its exception
\* leaves the try block, report.py 107-108
AfterSave(run, name, r, db_type) ==
    LET validated == IF db_type = "cosmosdb" /\ r.raised # "ValueError"
                     THEN run.log \o << <<"validate", name>> >>
                     ELSE run.log
    IN IF r.raised # "none"
       THEN [run EXCEPT !.docs[name] = r.docs, !.uuid = r.uuid, !.log = validated,
                        !.error = r.raised, !.failed = name]
       ELSE [run EXCEPT !.docs[name] = r.docs, !.uuid = r.uuid,
                        !.log = validated \o << <<"persist", name>> >>]

\* handle_azure_blob_storage(..., dataframes, ...)
Exported(run) ==
    [run EXCEPT !.log = @ \o [i \in 1..Len(SaveOrder) |-> <<"export", SaveOrder[i]>>],
                !.exported = ExportedStreams]

\* report.py 78-105 from the k-th save on.  frames: the records of each
\* dataframe; fail: the stream whose first write the server fails
RECURSIVE SaveFrom(_, _, _, _, _, _, _)
SaveFrom(k, run, frames, db_type, owner, repo, fail) ==
    IF k > Len(SaveOrder) THEN Exported(run)
    ELSE CHOOSE out \in
            {IF after.error # "none" THEN after
             ELSE SaveFrom(k + 1, after, frames, db_type, owner, repo, fail) :
                after \in
                    {AfterSave(run, SaveOrder[k], r, db_type) :
                        r \in {SaveData(run.docs[SaveOrder[k]], SaveOrder[k],
                                        frames[SaveOrder[k]], db_type, owner, repo,
                                        IF fail = SaveOrder[k] THEN 1 ELSE 0,
                                        run.uuid)}}} : TRUE

\* report.py 47-75: what the run computes from the responses of the GitHub
\* API (inp.repo_info, inp.views_data, inp.clones_data), the events its pages
\* list (inp.stars_data, inp.forks_data) and the stored rows
Processed(docs, db_type, owner, repo, inp) ==
    [about |-> IF inp.repo_info.status_code # 200
               THEN <<>>
               ELSE <<ProcessAboutData(inp.repo_info.json, owner, repo)>>,
     stars |-> ProcessStarsData(inp.stars_data, owner, repo),
     forks |-> ProcessForksData(inp.forks_data, owner, repo),
     traffic |-> ProcessTrafficData(inp.views_data, owner, repo),
     traffic_df |-> AppendNewData(FetchAllData(docs["TrafficStats"], db_type).rows,
                        ProcessTrafficData(inp.views_data, owner, repo).rows, "Date"),
     clones |-> ProcessClonesData(inp.clones_data, owner, repo),
     clones_df |-> AppendNewData(FetchAllData(docs["GitClones"], db_type).rows,
                        ProcessClonesData(inp.clones_data, owner, repo).rows, "Date")]

\* the records save_data receives for each stream, report.py 78-91
Dataframes(p) ==
    [n \in ExportedStreams |->
        IF n = "About" THEN ToRecords(DataFrame(p.about))
        ELSE IF n = "TrafficStats" THEN ToRecords(p.traffic_df.df)
        ELSE IF n = "GitClones" THEN ToRecords(p.clones_df.df)
        ELSE IF n = "Stars" THEN ToRecords(DataFrame(p.stars.rows))
        ELSE ToRecords(DataFrame(p.forks.rows))]

\* the run from its first stage on, p being what it computes
StagesFrom(start, p, db_type, owner, repo, fail) ==
    IF fail = "fetch"
    THEN AbortedAt(start, <<"fetch", "About">>, "ConnectionError")
    ELSE IF p.stars.raised # "none"
    THEN AbortedAt(start, <<"normalize", "Stars">>, p.stars.raised)
    ELSE IF p.forks.raised # "none"
    THEN AbortedAt(start, <<"normalize", "Forks">>, p.forks.raised)
    ELSE IF p.traffic.raised # "none"
    THEN AbortedAt(start, <<"normalize", "TrafficStats">>, p.traffic.raised)
    ELSE IF p.traffic_df.raised # "none"
    THEN AbortedAt(start, <<"merge", "TrafficStats">>, p.traffic_df.raised)
    ELSE IF p.clones.raised # "none"
    THEN AbortedAt(start, <<"normalize", "GitClones">>, p.clones.raised)
    ELSE IF p.clones_df.raised # "none"
    THEN AbortedAt(start, <<"merge", "GitClones">>, p.clones_df.raised)
    ELSE CHOOSE out \in
            {SaveFrom(1, st, fr, db_type, owner, repo, fail) :
                st \in {[start EXCEPT !.log = StagesBeforeSave]},
                fr \in {Dataframes(p)}} : TRUE

\* retrieve_and_process_stats(owner, repo, ..., db_type, ...) on the database
\* docs.  inp.fail: "none", "fetch" (the first request raises) or the stream
\* whose first write the server fails.
RetrieveAndProcessStats(docs, uuid, db_type, owner, repo, inp) ==
    CHOOSE out \in
        {StagesFrom(start, p, db_type, owner, repo, inp.fail) :
            start \in {[docs |-> docs, uuid |-> uuid, log |-> <<>>, error |-> "none",
                        failed |-> "none", exported |-> {}]},
            p \in {Processed(docs, db_type, owner, repo, inp)}} : TRUE

(***************************************************************************)
(* Merge harness: append_new_data as a pure function of the fetched rows   *)
(* and the new rows.                                                       *)
(***************************************************************************)
MaxOld == 2
MaxNew == 2

\* cells a 'Date' field holds when it reaches append_new_data
MergeDates == {Mdy(12, 31, 2023), Mdy(1, 1, 2024), None}
MergeCounts == {IntV(1), IntV(2)}

MergeRows == {[Date |-> d, Views |-> v] : d \in MergeDates, v \in MergeCounts}

SeqsUpTo(S, n) == UNION {[1..k -> S] : k \in 0..n}

\* rows fetched from Cosmos DB carry their document id, rows from MongoDB none
WithId(rows) ==
    [i \in 1..Len(rows) |->
        [f \in DOMAIN rows[i] \cup {"id"} |->
            IF f = "id" THEN Uuid(i) ELSE rows[i][f]]]

NoMergeResult == [raised |-> "none", df |-> EmptyFrame]

MergeIdle ==
    /\ mPc = "idle"
    /\ mOld = <<>>
    /\ mNew = <<>>
    /\ mOut = NoMergeResult
    /\ mAgain = NoMergeResult

StoreNames ==
    {"About", "TrafficStats", "GitClones", "ReferringSites", "PopularContent",
     "Stars", "Forks"}

EmptyStore == [n \in StoreNames |-> <<>>]

NoFetch == [name |-> "", mongodb |-> <<>>, cosmosdb |-> <<>>]

StoreIdle ==
    /\ mongo = EmptyStore
    /\ cosmos = EmptyStore
    /\ uuidCount = 0

AdapterIdle ==
    /\ calls = <<>>
    /\ fetched = NoFetch

NoRows == [raised |-> "none", rows |-> <<>>]

NormIdle ==
    /\ nPc = "idle"
    /\ eventDates = <<>>
    /\ starsOut = NoRows
    /\ forksOut = NoRows

NotFound == [status_code |-> 404, json |-> [message |-> StrV("Not Found")]]

Ok(json) == [status_code |-> 200, json |-> json]

NoInput == [repo_info |-> NotFound, views_data |-> NotFound, clones_data |-> NotFound,
            stars_data |-> <<>>, forks_data |-> <<>>, fail |-> "none"]

NoRun == [inp |-> NoInput, log |-> <<>>, error |-> "none", failed |-> "none",
          exported |-> {}]

RunIdle ==
    /\ dbType = "mongodb"
    /\ runs = 0
    /\ last = NoRun

JobIdle ==
    /\ jPc = "idle"
    /\ repos = <<>>
    /\ idx = 1
    /\ processed_count = 0
    /\ attempted = <<>>
    /\ jobLog = ""

WireIdle ==
    /\ wPc = "idle"
    /\ wStamps = <<>>
    /\ wNorm = NoRows
    /\ wMerged = NoMergeResult

ReposIdle == dbs = <<>>

PagesIdle ==
    /\ pgPc = [fn |-> "none", at |-> "idle"]
    /\ pgPage = 1
    /\ pgItems = 0

PushIdle ==
    /\ cpPc = "idle"
    /\ csv_file = <<>>
    /\ access_csv = <<>>
    /\ no_access_file = <<>>
    /\ rowIdx = 1
    /\ cpRuns = 0

MigIdle ==
    /\ mgPc = "idle"
    /\ mgColls = <<>>
    /\ mgCosmos = <<>>
    /\ mgTask = <<>>
    /\ mgTrace = <<>>
    /\ mgRuns = 0

ToolsIdle == PushIdle /\ MigIdle

LaterIdle == WireIdle /\ ReposIdle /\ PagesIdle /\ ToolsIdle

MergeInit ==
    /\ LaterIdle
    /\ StoreIdle
    /\ AdapterIdle
    /\ NormIdle
    /\ RunIdle
    /\ JobIdle
    /\ mPc = "input"
    /\ \E rows \in SeqsUpTo(MergeRows, MaxOld) : mOld \in {rows, WithId(rows)}
    /\ mNew \in SeqsUpTo(MergeRows, MaxNew)
    /\ mOut = NoMergeResult
    /\ mAgain = NoMergeResult

Merge ==
    /\ mPc = "input"
    /\ mOut' = AppendNewData(mOld, mNew, "Date")
    /\ mPc' = "merged"
    /\ UNCHANGED <<mOld, mNew, mAgain, storeVars, adapterVars, normVars, runVars, jobVars, wireVars, repoVars, pageVars,
                   pushVars, migVars>>

MergeAgain ==
    /\ mPc = "merged"
    /\ mOut.raised = "none"
    /\ mAgain' = AppendNewData(ToRecords(mOut.df), <<>>, "Date")
    /\ mPc' = "again"
    /\ UNCHANGED <<mOld, mNew, mOut, storeVars, adapterVars, normVars, runVars, jobVars, wireVars, repoVars, pageVars,
                   pushVars, migVars>>

MergeNext == Merge \/ MergeAgain

SpecMerge == MergeInit /\ [][MergeNext]_vars

\* the identity key of a row as the merge sees it
MergeKey(row) == DtStrftimeMdy(ToDatetime(row["Date"]))

mRows == mOut.df.rows

\* C1: the dataset append_new_data returns holds at most one row for each
\* value of the identity key 'Date', whatever the old and the new rows are.
C1_AtMostOnePerKey ==
    (mPc \in {"merged", "again"} /\ mOut.raised = "none") =>
        \A i, j \in 1..Len(mRows) : i # j => mRows[i]["Date"] # mRows[j]["Date"]

\* an old and a new row share a key and the merge has returned one row for it
C1_Witness ==
    /\ mPc = "merged"
    /\ mOut.raised = "none"
    /\ \E i \in 1..Len(mOld), j \in 1..Len(mNew) :
          /\ MergeKey(mOld[i]) = MergeKey(mNew[j])
          /\ Cardinality({k \in 1..Len(mRows) : mRows[k]["Date"] = MergeKey(mNew[j])}) = 1

\* C2: for every key among the new rows, the returned row of that key carries
\* the values of the last new row with that key, also when an old row has it.
C2_OverrideOrder ==
    (mPc \in {"merged", "again"} /\ mOut.raised = "none") =>
        \A j \in 1..Len(mNew) :
            (\A j2 \in (j + 1)..Len(mNew) : MergeKey(mNew[j2]) # MergeKey(mNew[j])) =>
                /\ \E k \in 1..Len(mRows) : mRows[k]["Date"] = MergeKey(mNew[j])
                /\ \A k \in 1..Len(mRows) :
                      mRows[k]["Date"] = MergeKey(mNew[j]) =>
                          \A f \in DOMAIN mNew[j] \ {"Date"} : mRows[k][f] = mNew[j][f]

\* an old row and two new rows share a key, all three with different history:
\* the old row and the first new row differ from the last new row
C2_Witness ==
    /\ mPc = "merged"
    /\ mOut.raised = "none"
    /\ Len(mNew) = 2
    /\ MergeKey(mNew[1]) = MergeKey(mNew[2])
    /\ mNew[1]["Views"] # mNew[2]["Views"]
    /\ \E i \in 1..Len(mOld) :
          /\ MergeKey(mOld[i]) = MergeKey(mNew[2])
          /\ mOld[i]["Views"] # mNew[2]["Views"]
    /\ \E k \in 1..Len(mRows) : mRows[k]["Views"] = mNew[2]["Views"]

CalendarLeq(a, b) ==
    \/ a[4] < b[4]
    \/ a[4] = b[4] /\ a[2] < b[2]
    \/ a[4] = b[4] /\ a[2] = b[2] /\ a[3] <= b[3]

\* C11: the rows append_new_data returns are in ascending calendar order of
\* their dates, also when the dates are of different months and years.
C11_CalendarOrder ==
    (mPc \in {"merged", "again"} /\ mOut.raised = "none") =>
        \A i, j \in 1..Len(mRows) :
            (i < j /\ ~IsNa(mRows[i]["Date"]) /\ ~IsNa(mRows[j]["Date"])) =>
                CalendarLeq(mRows[i]["Date"], mRows[j]["Date"])

(***************************************************************************)
(* Adapter harness: the same save_data and fetch calls made against a      *)
(* MongoDB and a Cosmos DB database side by side.                          *)
(***************************************************************************)
MaxCalls == 2
MaxBatch == 2

Owner == "jaydestro"
Repo == "stats"

Stamp == StampOf(Owner, Repo)

\* TrafficStats rows as a caller can hand them to save_data: merged rows
\* (the date text or a missing date), one of them without the 'Views' field
TrafficBatchRows ==
    {Overlay(Stamp, ("Date" :> dv[1]) @@ ("Views" :> dv[2]) @@ ("Unique visitors" :> IntV(1))) :
        dv \in {<<Mdy(1, 1, 2024), IntV(1)>>, <<Mdy(1, 1, 2024), IntV(2)>>,
                <<Mdy(1, 2, 2024), IntV(1)>>, <<NaN, IntV(1)>>}}
    \cup
    {Overlay(Stamp, ("Date" :> Mdy(1, 1, 2024)) @@ ("Unique visitors" :> IntV(1)))}

AboutBatchRows ==
    {Overlay(Stamp, [About |-> a]) : a \in {StrV("about"), None}}

\* rows of process_referrers_data: one referrer fetched on two days
ReferringBatchRows ==
    {Overlay(Stamp, ("Referring site" :> StrV("google.com")) @@ ("Views" :> fv[2])
                    @@ ("Unique visitors" :> IntV(1)) @@ ("FetchedAt" :> fv[1])) :
        fv \in {<<Mdy(1, 1, 2024), IntV(1)>>, <<Mdy(1, 1, 2024), IntV(2)>>,
                <<Mdy(1, 2, 2024), IntV(1)>>}}

\* rows of process_popular_content_data: one path fetched on two days
PopularBatchRows ==
    {Overlay(Stamp, ("Path" :> StrV("/readme")) @@ ("Title" :> StrV("readme"))
                    @@ ("Views" :> IntV(1)) @@ ("Unique visitors" :> IntV(1))
                    @@ ("FetchedAt" :> f)) :
        f \in {Mdy(1, 1, 2024), Mdy(1, 2, 2024)}}

BatchesOf(name) ==
    IF name = "TrafficStats" THEN SeqsUpTo(TrafficBatchRows, MaxBatch)
    ELSE IF name = "About" THEN SeqsUpTo(AboutBatchRows, 1)
    ELSE IF name = "ReferringSites" THEN SeqsUpTo(ReferringBatchRows, 1)
    ELSE IF name = "PopularContent" THEN SeqsUpTo(PopularBatchRows, 1)
    ELSE {<<>>}

\* the names save_data is called with: four streams and a name no adapter knows
HarnessNames == {"TrafficStats", "About", "ReferringSites", "PopularContent", "Issues"}

AdapterInit ==
    /\ LaterIdle
    /\ MergeIdle
    /\ StoreIdle
    /\ AdapterIdle
    /\ NormIdle
    /\ RunIdle
    /\ JobIdle

\* save_data(client, db, name, data, db_type, owner, repo) for both kinds
SaveBoth(name, data, failAt) ==
    /\ Len(calls) < MaxCalls
    /\ \E m \in {SaveData(IF name \in StoreNames THEN mongo[name] ELSE <<>>,
                          name, data, "mongodb", Owner, Repo, failAt, uuidCount)},
          c \in {SaveData(IF name \in StoreNames THEN cosmos[name] ELSE <<>>,
                          name, data, "cosmosdb", Owner, Repo, failAt, uuidCount)} :
       /\ mongo' = IF name \in StoreNames THEN [mongo EXCEPT ![name] = m.docs] ELSE mongo
       /\ cosmos' = IF name \in StoreNames THEN [cosmos EXCEPT ![name] = c.docs] ELSE cosmos
       /\ uuidCount' = c.uuid
       /\ calls' = Append(calls,
              [name |-> name, data |-> data, failAt |-> failAt, uuidBefore |-> uuidCount,
               mongodb |-> [raised |-> m.raised, passed |-> m.passed],
               cosmosdb |-> [raised |-> c.raised, passed |-> c.passed]])
       /\ UNCHANGED <<fetched, mergeVars, normVars, runVars, jobVars, wireVars, repoVars, pageVars,
                   pushVars, migVars>>

Save == \E name \in HarnessNames : \E data \in BatchesOf(name) :
            \E failAt \in 0..Len(data) : SaveBoth(name, data, failAt)

\* the fetch of append_new_data for both kinds
Fetch ==
    \E name \in HarnessNames \cap StoreNames :
        /\ fetched' = [name |-> name,
                       mongodb |-> FetchAllData(mongo[name], "mongodb").rows,
                       cosmosdb |-> FetchAllData(cosmos[name], "cosmosdb").rows]
        /\ fetched' # fetched
        /\ UNCHANGED <<storeVars, calls, mergeVars, normVars, runVars, jobVars, wireVars, repoVars, pageVars,
                   pushVars, migVars>>

AdapterNext == Save \/ Fetch

SpecStore == AdapterInit /\ [][AdapterNext]_vars

\* the logical row of a document: backend-internal fields removed
Logical(doc) == Without(doc, {"_id", "id", "_rid"})

LogicalRows(docs) == {Logical(docs[i]) : i \in 1..Len(docs)}

\* the id preprocess_data generated for the single row of call c
GeneratedId(c) == PreprocessData(c.data, Owner, Repo, c.uuidBefore).data[1]["id"]

\* the single row of call c is one the Cosmos adapter wrote, and it had no id
WroteOneRowWithoutId(c) ==
    /\ Len(c.data) = 1
    /\ "id" \notin DOMAIN c.data[1]
    /\ c.cosmosdb.raised = "none"
    /\ c.cosmosdb.passed = 1

\* C6: when save_to_cosmosdb upserts the same row lacking an 'id' twice, both
\* calls generate the same id and the container then holds one document for
\* that row.
C6_SameGeneratedId ==
    \A i \in 1..Len(calls) :
        LET a == calls[i]
            b == calls[Len(calls)]
        IN (/\ i < Len(calls)
            /\ a.name = b.name
            /\ a.data = b.data
            /\ WroteOneRowWithoutId(a)
            /\ WroteOneRowWithoutId(b)) =>
               /\ GeneratedId(a) = GeneratedId(b)
               /\ Cardinality({k \in 1..Len(cosmos[b.name]) :
                      Logical(cosmos[b.name][k]) = Logical(Overlay(Stamp, b.data[1]))}) = 1

\* C7: a TrafficStats batch with a row lacking 'Views' fails validation and
\* none of its rows is handed to update_one / upsert_item, for either kind.
C7_SchemaRejection ==
    \A i \in 1..Len(calls) :
        (/\ calls[i].name = "TrafficStats"
         /\ \E k \in 1..Len(calls[i].data) : "Views" \notin DOMAIN calls[i].data[k]) =>
            /\ calls[i].mongodb.raised = "ValueError"
            /\ calls[i].mongodb.passed = 0
            /\ calls[i].cosmosdb.raised = "ValueError"
            /\ calls[i].cosmosdb.passed = 0

\* the call handed rows that carry every field of their schema, with a date
CompleteRows(c) ==
    /\ c.name \in StoreNames
    /\ \A k \in 1..Len(c.data) :
          /\ DOMAIN SchemaOf(c.name) \subseteq DOMAIN c.data[k]
          /\ "Date" \in DOMAIN c.data[k] => ~IsNa(c.data[k]["Date"])

\* the call handed complete rows and no write of it was failed by the server
PlainCall(c) == c.failAt = 0 /\ CompleteRows(c)

\* C10: after the same save_data calls (here: calls with complete rows of a
\* known stream, no write failing) the two databases hold the same logical
\* rows in every stream, and a fetch returns the same rows from both.
C10_BackendsEquivalent ==
    (\A i \in 1..Len(calls) : PlainCall(calls[i])) =>
        /\ \A n \in StoreNames : LogicalRows(mongo[n]) = LogicalRows(cosmos[n])
        /\ fetched.mongodb = fetched.cosmosdb

\* the referrer (path) and the fetch date of a row
PerFetchKey(n, row) == <<Get(row, unique_field_map[n]), Get(row, "FetchedAt")>>

\* the documents hold one row for every referrer (path) and fetch date saved
OneRowPerFetch(docs, n) ==
    /\ \A i \in 1..Len(calls) : \A k \in 1..Len(calls[i].data) :
          calls[i].name = n =>
              \E d \in 1..Len(docs) : PerFetchKey(n, docs[d]) = PerFetchKey(n, calls[i].data[k])
    /\ \A d, e \in 1..Len(docs) :
          d # e => PerFetchKey(n, docs[d]) # PerFetchKey(n, docs[e])

\* C13: upserts into ReferringSites are keyed by referrer and fetch date, into
\* PopularContent by path and fetch date: rows of different fetch dates are
\* all retained, rows of the same fetch date collapse into one.
C13_KeyedByFetchDate ==
    (\A i \in 1..Len(calls) : PlainCall(calls[i])) =>
        \A n \in {"ReferringSites", "PopularContent"} :
            OneRowPerFetch(mongo[n], n) /\ OneRowPerFetch(cosmos[n], n)

\* the rows of the documents with the fields the store generated removed
Stripped(docs) == [i \in 1..Len(docs) |-> Logical(docs[i])]

\* C15: a fetch returns every row stored for the stream with the fields the
\* store generated (_id, id, _rid) removed, from MongoDB and from Cosmos DB.
C15_FetchStripsBookkeeping ==
    [][fetched' # fetched =>
          /\ fetched'.mongodb = Stripped(mongo[fetched'.name])
          /\ fetched'.cosmosdb = Stripped(cosmos[fetched'.name])]_vars

\* C16: when the write of one row of a batch fails, the failure is logged and
\* every remaining row of the batch is still handed to the store, for both
\* kinds.
C16_BatchGoesOnAfterFailure ==
    \A i \in 1..Len(calls) :
        (CompleteRows(calls[i]) /\ calls[i].failAt \in 1..Len(calls[i].data)) =>
            /\ calls[i].mongodb.passed = Len(calls[i].data)
            /\ calls[i].cosmosdb.passed = Len(calls[i].data)

\* C19: a transient write error is retried (up to 3 attempts in all) and
\* surfaces only when the last attempt fails: a write the server fails once
\* (failAt fails one attempt, the next would succeed) raises nothing.
C19_TransientWriteRetried ==
    \A i \in 1..Len(calls) :
        (CompleteRows(calls[i]) /\ calls[i].failAt \in 1..Len(calls[i].data)) =>
            /\ calls[i].mongodb.raised = "none"
            /\ calls[i].cosmosdb.raised = "none"

(***************************************************************************)
(* Normalizer harness: process_stars_data and process_forks_data as pure   *)
(* functions of the fetched events.                                        *)
(***************************************************************************)
MaxEvents == 3

EventDates == {Iso(2023, 12, 31), Iso(2024, 1, 1), Iso(2024, 1, 2)}

\* the stargazer / fork records of the given creation dates
Events(dates, field) == [i \in 1..Len(dates) |-> (field :> dates[i])]

NormInit ==
    /\ LaterIdle
    /\ MergeIdle
    /\ StoreIdle
    /\ AdapterIdle
    /\ RunIdle
    /\ JobIdle
    /\ nPc = "input"
    /\ eventDates \in SeqsUpTo(EventDates, MaxEvents)
    /\ starsOut = NoRows
    /\ forksOut = NoRows

NormalizeStars ==
    /\ nPc = "input"
    /\ starsOut' = ProcessStarsData(Events(eventDates, "starred_at"), Owner, Repo)
    /\ nPc' = "stars"
    /\ UNCHANGED <<eventDates, forksOut, mergeVars, storeVars, adapterVars, runVars, jobVars, wireVars, repoVars, pageVars,
                   pushVars, migVars>>

NormalizeForks ==
    /\ nPc = "stars"
    /\ forksOut' = ProcessForksData(Events(eventDates, "created_at"), Owner, Repo)
    /\ nPc' = "forks"
    /\ UNCHANGED <<eventDates, starsOut, mergeVars, storeVars, adapterVars, runVars, jobVars, wireVars, repoVars, pageVars,
                   pushVars, migVars>>

NormNext == NormalizeStars \/ NormalizeForks

SpecNorm == NormInit /\ [][NormNext]_vars

\* the number of events created on or before the date of the text 'MM-DD-YYYY'
EventsUpTo(mdy) ==
    Cardinality({i \in 1..Len(eventDates) :
        ~IsoLess(Iso(mdy[4], mdy[2], mdy[3]), eventDates[i])})

\* rows has one row for each distinct date among the events, and the row's
\* total is the number of events created on or before its date
RunningTotals(rows, totalField) ==
    /\ {rows[i]["Date"] : i \in 1..Len(rows)} =
          {StrftimeMdy(Strptime(eventDates[i])) : i \in 1..Len(eventDates)}
    /\ \A i, j \in 1..Len(rows) : i # j => rows[i]["Date"] # rows[j]["Date"]
    /\ \A i \in 1..Len(rows) : rows[i][totalField] = IntV(EventsUpTo(rows[i]["Date"]))

\* C4: for any sequence of star / fork events the normalizer emits one row
\* per distinct date, holding the running total of events up to that date.
C4_CumulativeTotals ==
    /\ nPc \in {"stars", "forks"} => RunningTotals(starsOut.rows, "Total Stars")
    /\ nPc = "forks" => RunningTotals(forksOut.rows, "Total Forks")

(***************************************************************************)
(* The program run from the command line (report.py main): any number of   *)
(* runs of retrieve_and_process_stats for one repository against one       *)
(* database kind.                                                          *)
(***************************************************************************)
MaxRuns == 2

WireCount(ts, count) ==
    ("timestamp" :> ts) @@ ("count" :> IntV(count)) @@ ("uniques" :> IntV(1))

\* what GET /traffic/views answers: an error, or a list of daily records;
\* one record lacks its timestamp, one its count
ViewsAnswers ==
    {NotFound,
     Ok([views |-> <<WireCount(Iso(2024, 1, 1), 1)>>]),
     Ok([views |-> <<WireCount(Iso(2024, 1, 1), 2)>>]),
     Ok([views |-> <<WireCount(Iso(2024, 1, 2), 1)>>]),
     Ok([views |-> <<("count" :> IntV(1)) @@ ("uniques" :> IntV(1))>>]),
     Ok([views |-> <<("timestamp" :> Iso(2024, 1, 1)) @@ ("uniques" :> IntV(1))>>])}

ClonesAnswers ==
    {NotFound, Ok([clones |-> <<WireCount(Iso(2024, 1, 1), 1)>>])}

RepoInfoAnswers == {NotFound, Ok([description |-> StrV("about")])}

StarsAnswers == {<<>>, Events(<<Iso(2024, 1, 1), Iso(2024, 1, 2)>>, "starred_at")}

ForksAnswers == {<<>>, Events(<<Iso(2024, 1, 1)>>, "created_at")}

\* the answers of a run in which every stream has data
FullInput ==
    [repo_info |-> Ok([description |-> StrV("about")]),
     views_data |-> Ok([views |-> <<WireCount(Iso(2024, 1, 1), 1)>>]),
     clones_data |-> Ok([clones |-> <<WireCount(Iso(2024, 1, 1), 1)>>]),
     stars_data |-> Events(<<Iso(2024, 1, 1), Iso(2024, 1, 2)>>, "starred_at"),
     forks_data |-> Events(<<Iso(2024, 1, 1)>>, "created_at"),
     fail |-> "none"]

\* where the environment can fail a run: the first request, or the first
\* write of one stream
Failures == {"fetch"} \cup ExportedStreams

RunInit ==
    /\ LaterIdle
    /\ MergeIdle
    /\ StoreIdle
    /\ AdapterIdle
    /\ NormIdle
    /\ JobIdle
    /\ dbType \in {"mongodb", "cosmosdb"}
    /\ runs = 0
    /\ last = NoRun

\* one run of the program with the answers and the failure of inp
Run(inp) ==
    /\ runs < MaxRuns
    /\ \E r \in {RetrieveAndProcessStats(IF dbType = "mongodb" THEN mongo ELSE cosmos,
                                        uuidCount, dbType, Owner, Repo, inp)} :
          /\ mongo' = IF dbType = "mongodb" THEN r.docs ELSE mongo
          /\ cosmos' = IF dbType = "cosmosdb" THEN r.docs ELSE cosmos
          /\ uuidCount' = r.uuid
          /\ last' = [inp |-> inp, log |-> r.log, error |-> r.error,
                      failed |-> r.failed, exported |-> r.exported]
    /\ runs' = runs + 1
    /\ UNCHANGED <<dbType, mergeVars, adapterVars, normVars, jobVars, wireVars, repoVars, pageVars,
                   pushVars, migVars>>

\* a run in which no request raises and the server fails no write
RunUndisturbed ==
    \E ri \in RepoInfoAnswers, v \in ViewsAnswers, c \in ClonesAnswers,
       st \in StarsAnswers, f \in ForksAnswers :
        Run([repo_info |-> ri, views_data |-> v, clones_data |-> c,
             stars_data |-> st, forks_data |-> f, fail |-> "none"])

\* a run with data for every stream in which a request or a write fails
RunDisturbed == \E f \in Failures : Run([FullInput EXCEPT !.fail = f])

Next == RunUndisturbed \/ RunDisturbed

Spec == RunInit /\ [][Next]_vars

\* no two documents of the stream share the value of its identity key
UniqueKeys(docs, name) ==
    \A i, j \in 1..Len(docs) :
        i # j => Get(docs[i], unique_field_map[name]) # Get(docs[j], unique_field_map[name])

\* C5: after any sequence of runs, with either database kind, every persisted
\* stream holds at most one row per value of its identity key.
C5_OneRowPerKeyPersisted ==
    \A n \in ExportedStreams : UniqueKeys(mongo[n], n) /\ UniqueKeys(cosmos[n], n)

\* the stream has no error of its own in the run with the responses inp:
\* save_data raises nothing for its records
SavesAlone(n, inp) ==
    \E docs \in {IF dbType = "mongodb" THEN mongo ELSE cosmos} :
        \E p \in {Processed(docs, dbType, Owner, Repo, inp)} :
            SaveData(docs[n], n, Dataframes(p)[n], dbType, Owner, Repo, 0,
                     uuidCount).raised = "none"

\* C8: when the save of one stream fails in a run (a schema violation or a
\* failed write), every other stream that has no error of its own is still
\* persisted and exported by that run.
C8_SiblingStreamsProceed ==
    [][(runs' = runs + 1 /\ last'.failed # "none") =>
            \A n \in ExportedStreams \ {last'.failed} :
                SavesAlone(n, last'.inp) =>
                    /\ \E k \in 1..Len(last'.log) : last'.log[k] = <<"persist", n>>
                    /\ n \in last'.exported]_vars

IsPersist(entry) == entry[1] = "persist"

IsExport(entry) == entry[1] = "export"

\* the position of the stream in SaveOrder
SavePosition(n) == CHOOSE k \in 1..Len(SaveOrder) : SaveOrder[k] = n

\* C25: a run persists About, TrafficStats, GitClones, Stars, Forks in that
\* order and exports only after the five saves returned; when the save of a
\* stream raises, the streams before it are persisted, the stored rows of the
\* streams after it are untouched, nothing is exported, and the run returns
\* with the error logged.
C25_SavesInOrderThenExport ==
    [][runs' = runs + 1 =>
          \E log \in {last'.log} :
          \E saved \in {SelectSeq(log, IsPersist)}, exports \in {SelectSeq(log, IsExport)},
             before \in {IF dbType = "mongodb" THEN mongo ELSE cosmos},
             after \in {IF dbType = "mongodb" THEN mongo' ELSE cosmos'} :
             /\ Len(saved) <= Len(SaveOrder)
             /\ \A i \in 1..Len(saved) : saved[i] = <<"persist", SaveOrder[i]>>
             /\ exports # <<>> =>
                   /\ Len(saved) = Len(SaveOrder)
                   /\ SubSeq(log, Len(log) - Len(exports) + 1, Len(log)) = exports
             /\ last'.failed # "none" =>
                   /\ Len(saved) = SavePosition(last'.failed) - 1
                   /\ \A k \in (SavePosition(last'.failed) + 1)..Len(SaveOrder) :
                         after[SaveOrder[k]] = before[SaveOrder[k]]
                   /\ exports = <<>>
                   /\ last'.exported = {}
                   /\ last'.error # "none"]_vars

\* the save of GitClones raised in a run: About and TrafficStats are
\* persisted and stored, nothing was exported
C25_Witness ==
    /\ runs > 0
    /\ last.failed = "GitClones"
    /\ SelectSeq(last.log, IsPersist) = << <<"persist", "About">>, <<"persist", "TrafficStats">> >>
    /\ (IF dbType = "mongodb" THEN mongo ELSE cosmos)["TrafficStats"] # <<>>
    /\ last.exported = {}

\* the stages of a stream in the order of the pipeline
StageOrder == <<"fetch", "normalize", "merge", "validate", "persist", "export">>

\* where the run logged the stage of the stream, 0 if it never did
StagePosition(log, stage, n) ==
    IF \E i \in 1..Len(log) : log[i] = <<stage, n>>
    THEN Min({i \in 1..Len(log) : log[i] = <<stage, n>>})
    ELSE 0

\* C18: in a run without an error each of the seven streams passes through
\* fetch, normalize, merge, validate, persist and export, in that order.
C18_SevenStreamsAllStages ==
    (runs > 0 /\ last.error = "none") =>
        \A n \in StoreNames :
            /\ \A k \in 1..Len(StageOrder) : StagePosition(last.log, StageOrder[k], n) > 0
            /\ \A k \in 1..(Len(StageOrder) - 1) :
                  StagePosition(last.log, StageOrder[k], n)
                      < StagePosition(last.log, StageOrder[k + 1], n)

(***************************************************************************)
(* The scheduled job (function_app.py main): one timer invocation over the *)
(* repositories of repos.csv.                                              *)
(***************************************************************************)
MaxRepos == 3

\* the number of parameters of retrieve_and_process_stats, none with a default
ParamsRequired == 9

\* the number of positional arguments of the call in main
ArgsPassed == 8

TrackedRepos == {<<"jaydestro", "stats">>, <<"jaydestro", "blog">>, <<"octo", "cat">>}

\* read_file_from_azure_blob: the (owner, repo) pairs of the rows of repos.csv
ReadFileFromAzureBlob == SeqsUpTo(TrackedRepos, MaxRepos)

\* a mutant of CallRetrieveAndProcessStats: the call binds whatever it passes
CallAlwaysBinds(nargs) == "returned"

\* the call retrieve_and_process_stats(...) with nargs positional arguments:
\* Python raises TypeError before the body runs unless every parameter is
\* bound; the body catches every Exception of the pipeline and returns
CallRetrieveAndProcessStats(nargs) ==
    IF nargs = ParamsRequired THEN "returned" ELSE "TypeError"

\* a mutant of OnException: the exception leaves the loop
OnExceptionLeaveLoop(i, total_repos) == total_repos + 1

\* `except Exception as e: logging.error(...)` inside the loop body: the loop
\* goes on with the repository after the i-th
OnException(i, total_repos) == i + 1

SchedInit ==
    /\ LaterIdle
    /\ MergeIdle
    /\ StoreIdle
    /\ AdapterIdle
    /\ NormIdle
    /\ RunIdle
    /\ jPc = "start"
    /\ repos = <<>>
    /\ idx = 1
    /\ processed_count = 0
    /\ attempted = <<>>
    /\ jobLog = ""

\* function_app.py 18-30 and 47-52: the environment is read, then repos.csv
JobStart ==
    /\ jPc = "start"
    /\ \/ /\ jobLog' = "Missing environment variable"
          /\ jPc' = "done"
          /\ UNCHANGED repos
       \/ /\ jobLog' = "Failed to read from Azure Blob or process data"
          /\ jPc' = "done"
          /\ UNCHANGED repos
       \/ \E list \in ReadFileFromAzureBlob :
            /\ repos' = list
            /\ IF list # <<>>
               THEN jPc' = "loop" /\ UNCHANGED jobLog
               ELSE jPc' = "done" /\ jobLog' = "No repositories found to process."
    /\ UNCHANGED <<idx, processed_count, attempted,
                   mergeVars, storeVars, adapterVars, normVars, runVars,
                   wireVars, repoVars, pageVars,
                   pushVars, migVars>>

\* function_app.py 32-40: one pass of the loop body. A call that binds runs
\* the pipeline, which catches its own errors (report.py 107-108) and returns:
\* the repository is counted; done holds the streams that were persisted and
\* exported. A call that raises leaves the store as it was.
JobRepo ==
    /\ jPc = "loop"
    /\ idx <= Len(repos)
    /\ IF CallRetrieveAndProcessStats(ArgsPassed) = "returned"
       THEN \E db \in {"mongodb", "cosmosdb"}, f \in {"none"} \cup Failures :
              \E r \in {RetrieveAndProcessStats(IF db = "mongodb" THEN mongo ELSE cosmos,
                                               uuidCount, db, repos[idx][1], repos[idx][2],
                                               [FullInput EXCEPT !.fail = f])} :
                 /\ mongo' = IF db = "mongodb" THEN r.docs ELSE mongo
                 /\ cosmos' = IF db = "cosmosdb" THEN r.docs ELSE cosmos
                 /\ uuidCount' = r.uuid
                 /\ processed_count' = processed_count + 1
                 /\ attempted' = Append(attempted, [repo |-> repos[idx], outcome |-> "processed",
                                                    done |-> r.exported])
                 /\ idx' = idx + 1
       ELSE /\ attempted' = Append(attempted, [repo |-> repos[idx], outcome |-> "error",
                                               done |-> {}])
            /\ idx' = OnException(idx, Len(repos))
            /\ UNCHANGED <<processed_count, storeVars>>
    /\ UNCHANGED <<repos, jobLog, jPc, mergeVars, adapterVars, normVars, runVars,
                   wireVars, repoVars, pageVars,
                   pushVars, migVars>>

\* function_app.py 42-45: the loop is over
JobReport ==
    /\ jPc = "loop"
    /\ idx > Len(repos)
    /\ jobLog' = IF processed_count = Len(repos)
                 THEN "Successfully processed all repositories."
                 ELSE "Some repositories failed to process."
    /\ jPc' = "done"
    /\ UNCHANGED <<repos, idx, processed_count, attempted,
                   mergeVars, storeVars, adapterVars, normVars, runVars,
                   wireVars, repoVars, pageVars,
                   pushVars, migVars>>

SchedNext == JobStart \/ JobRepo \/ JobReport

SpecSched == SchedInit /\ [][SchedNext]_vars

\* C9: an error in the pipeline of one repository stays inside the loop body:
\* when the job is over, every repository after a failed one was attempted,
\* in the order of the list.
C9_LaterReposAttempted ==
    jPc = "done" =>
        \A i \in 1..Len(attempted) :
            attempted[i].outcome = "error" =>
                \A j \in (i + 1)..Len(repos) :
                    /\ j <= Len(attempted)
                    /\ attempted[j].repo = repos[j]

\* the job is over, the call for the first of three repositories raised and
\* the third was attempted
C9_Witness ==
    /\ jPc = "done"
    /\ Len(repos) = 3
    /\ attempted[1].outcome = "error"
    /\ Len(attempted) = 3
    /\ attempted[3].repo = repos[3]

\* C17: a repository is counted and logged as processed only if every one of
\* its streams reached Done; a repository with a stream that did not is not in
\* processed_count, and the job then does not report that all repositories
\* were processed.
C17_CountedOnlyWhenDone ==
    /\ \A i \in 1..Len(attempted) :
          attempted[i].outcome = "processed" => attempted[i].done = StoreNames
    /\ processed_count
          <= Cardinality({i \in 1..Len(attempted) : attempted[i].done = StoreNames})
    /\ (jPc = "done" /\ \E i \in 1..Len(attempted) : attempted[i].done # StoreNames)
          => jobLog # "Successfully processed all repositories."

\* the job is over two repositories, no stream of the first reached Done, it
\* was not counted and the job reports that repositories failed
C17_Witness ==
    /\ jPc = "done"
    /\ Len(repos) = 2
    /\ Len(attempted) = 2
    /\ attempted[1].done # StoreNames
    /\ attempted[1].outcome = "error"
    /\ processed_count = 0
    /\ jobLog = "Some repositories failed to process."

\* C26: every call of the scheduled job passes 8 arguments to the function
\* of 9 parameters and fails before it fetches, writes or exports anything:
\* no repository is counted, each is logged as an error, and a job over a
\* non-empty list ends with the warning that repositories failed.
C26_EveryScheduledCallFails ==
    /\ processed_count = 0
    /\ mongo = EmptyStore
    /\ cosmos = EmptyStore
    /\ \A i \in 1..Len(attempted) :
          attempted[i].outcome = "error" /\ attempted[i].done = {}
    /\ (jPc = "done" /\ repos # <<>>) =>
          /\ Len(attempted) = Len(repos)
          /\ jobLog = "Some repositories failed to process."

\* the job is over a list of three repositories: three errors, none counted
C26_Witness ==
    /\ jPc = "done"
    /\ Len(repos) = 3
    /\ Len(attempted) = 3
    /\ \A i \in 1..3 : attempted[i] = [repo |-> repos[i], outcome |-> "error", done |-> {}]
    /\ processed_count = 0
    /\ jobLog = "Some repositories failed to process."

(***************************************************************************)
(* Wire harness: the normalizers on wire records that lack their timestamp *)
(* or carry one that is no date, and append_new_data on the rows returned. *)
(***************************************************************************)
MaxWire == 2

\* the record has no timestamp field
Absent == <<"absent">>

\* 2024-02-30 is text of the timestamp's shape that is no date
WireStamps == {Iso(2023, 12, 31), Iso(2024, 1, 1), Iso(2024, 2, 30), Absent}

\* the wire records with the given timestamps under the key `field`
WireRecords(stamps, field) ==
    [i \in 1..Len(stamps) |->
        IF stamps[i] = Absent
        THEN ("count" :> IntV(1)) @@ ("uniques" :> IntV(1))
        ELSE (field :> stamps[i]) @@ ("count" :> IntV(1)) @@ ("uniques" :> IntV(1))]

WireInit ==
    /\ MergeIdle
    /\ StoreIdle
    /\ AdapterIdle
    /\ NormIdle
    /\ RunIdle
    /\ JobIdle
    /\ ReposIdle
    /\ PagesIdle
    /\ ToolsIdle
    /\ wPc = "input"
    /\ wStamps \in SeqsUpTo(WireStamps, MaxWire)
    /\ wNorm = NoRows
    /\ wMerged = NoMergeResult

WireUnchanged ==
    UNCHANGED <<wStamps, mergeVars, storeVars, adapterVars, normVars, runVars, jobVars,
                repoVars, pageVars,
                   pushVars, migVars>>

\* process_traffic_data(views_data, owner, repo)
WireTraffic ==
    /\ wPc = "input"
    /\ wNorm' = ProcessTrafficData(Ok([views |-> WireRecords(wStamps, "timestamp")]),
                                   Owner, Repo)
    /\ wPc' = "TrafficStats"
    /\ UNCHANGED wMerged
    /\ WireUnchanged

\* process_clones_data(clones_data, owner, repo)
WireClones ==
    /\ wPc = "input"
    /\ wNorm' = ProcessClonesData(Ok([clones |-> WireRecords(wStamps, "timestamp")]),
                                  Owner, Repo)
    /\ wPc' = "GitClones"
    /\ UNCHANGED wMerged
    /\ WireUnchanged

\* process_stars_data(stars_data, owner, repo, db_client, db_type)
WireStars ==
    /\ wPc = "input"
    /\ wNorm' = ProcessStarsData(WireRecords(wStamps, "starred_at"), Owner, Repo)
    /\ wPc' = "Stars"
    /\ UNCHANGED wMerged
    /\ WireUnchanged

\* process_forks_data(forks_data, owner, repo, db_client, db_type)
WireForks ==
    /\ wPc = "input"
    /\ wNorm' = ProcessForksData(WireRecords(wStamps, "created_at"), Owner, Repo)
    /\ wPc' = "Forks"
    /\ UNCHANGED wMerged
    /\ WireUnchanged

\* append_new_data(db_client, sanitized_repo, <stream>, <rows>, 'Date', db_type)
\* on an empty collection, report.py 73 and 75
WireMerge ==
    /\ wPc \in {"TrafficStats", "GitClones"}
    /\ wNorm.raised = "none"
    /\ wMerged' = AppendNewData(<<>>, wNorm.rows, "Date")
    /\ wPc' = "merged"
    /\ UNCHANGED wNorm
    /\ WireUnchanged

WireNext == WireTraffic \/ WireClones \/ WireStars \/ WireForks \/ WireMerge

SpecWire == WireInit /\ [][WireNext]_vars

\* the dates of the wire records that have a timestamp that is a date
GoodDates == {StrftimeMdy(Strptime(wStamps[i])) :
                i \in {k \in 1..Len(wStamps) : wStamps[k] # Absent /\ Strptime(wStamps[k]) # NaT}}

\* C12: a wire record without a timestamp, or with one that is no date, is
\* dropped: the normalizer never raises and the rows the merge returns are
\* those of the records that have a date, and no others.
C12_UndatedRecordsDropped ==
    /\ wPc \notin {"idle", "input"} => wNorm.raised = "none"
    /\ (wPc = "merged" /\ wMerged.raised = "none") =>
            {wMerged.df.rows[i]["Date"] : i \in 1..Len(wMerged.df.rows)} = GoodDates

(***************************************************************************)
(* Several tracked repositories sharing one database server: the database  *)
(* of a run is named sanitize_name(repo), report.py 34.  A repository name *)
(* is the sequence of its characters.                                      *)
(***************************************************************************)
\* str.isalnum on one character of the names below
IsAlnum(char) == char \in {"a", "b", "c", "A"}

\* str.lower on one character
Lower(char) == IF char = "A" THEN "a" ELSE char

\* ''.join(char if char.isalnum() else '-' for char in name).lower()
SanitizeName(name) ==
    [i \in 1..Len(name) |-> Lower(IF IsAlnum(name[i]) THEN name[i] ELSE "-")]

\* (owner, repo): one name under two owners, two names that sanitize_name
\* maps to the same text, and a name of its own
RepoPairs ==
    {<<"alice", <<"a", ".", "b">> >>, <<"bob", <<"a", ".", "b">> >>,
     <<"alice", <<"A", "_", "b">> >>, <<"alice", <<"c">> >>}

DatabaseNames == {SanitizeName(pr[2]) : pr \in RepoPairs}

\* what the API answers in a run: views of one day or of the next
RepoInputs ==
    {FullInput,
     [FullInput EXCEPT !.views_data = Ok([views |-> <<WireCount(Iso(2024, 1, 2), 1)>>])]}

ReposInit ==
    /\ MergeIdle
    /\ StoreIdle
    /\ AdapterIdle
    /\ NormIdle
    /\ JobIdle
    /\ WireIdle
    /\ PagesIdle
    /\ ToolsIdle
    /\ dbType \in {"mongodb", "cosmosdb"}
    /\ runs = 0
    /\ last = NoRun
    /\ dbs = [name \in DatabaseNames |-> EmptyStore]

\* one run of retrieve_and_process_stats for the repository pr
RunRepo(pr, inp) ==
    /\ runs < MaxRuns
    /\ \E r \in {RetrieveAndProcessStats(dbs[SanitizeName(pr[2])], uuidCount, dbType,
                                        pr[1], pr[2], inp)} :
          /\ dbs' = [dbs EXCEPT ![SanitizeName(pr[2])] = r.docs]
          /\ uuidCount' = r.uuid
          /\ last' = [repo |-> pr, inp |-> inp, log |-> r.log, error |-> r.error,
                      failed |-> r.failed, exported |-> r.exported]
    /\ runs' = runs + 1
    /\ UNCHANGED <<dbType, mongo, cosmos, mergeVars, adapterVars, normVars, jobVars,
                   wireVars, pageVars,
                   pushVars, migVars>>

ReposNext == \E pr \in RepoPairs, inp \in RepoInputs : RunRepo(pr, inp)

SpecRepos == ReposInit /\ [][ReposNext]_vars

\* the rows stored for the repository pr, by database and stream
RowsOf(databases, pr) ==
    UNION {{<<name, n, Logical(databases[name][n][i])>> :
                i \in {k \in 1..Len(databases[name][n]) :
                        /\ Get(databases[name][n][k], "Repo Owner") = StrV(pr[1])
                        /\ Get(databases[name][n][k], "Repo Name") = StrV(pr[2])}} :
            name \in DatabaseNames, n \in StoreNames}

\* C14: persisting the streams of one repository never changes the rows
\* stored for a different repository, also when the two have the same name
\* under different owners or names that sanitize_name maps to the same text.
C14_ReposNeverCollide ==
    [][runs' = runs + 1 =>
          \A pr \in RepoPairs \ {last'.repo} : RowsOf(dbs', pr) = RowsOf(dbs, pr)]_vars

(***************************************************************************)
(* Paginated fetches (report.py get_stars_data, get_forks_data): one call, *)
(* request by request.  Python counts without a limit; here the page       *)
(* number and the number of collected events stop growing at MaxPages and  *)
(* MaxItems, which then stand for "that many or more".                     *)
(***************************************************************************)
MaxPages == 6
MaxItems == 10
MaxPageLen == 2

PagedFetches == {"get_stars_data", "get_forks_data"}

\* what the API can answer to the request of one page: 200 with a page of
\* 0..MaxPageLen events, or a status that is not 200
PageAnswers ==
    {[status_code |-> 200, len |-> k] : k \in 0..MaxPageLen}
        \cup {[status_code |-> 403, len |-> 0]}

PagesInit ==
    /\ MergeIdle
    /\ StoreIdle
    /\ AdapterIdle
    /\ NormIdle
    /\ RunIdle
    /\ JobIdle
    /\ WireIdle
    /\ ReposIdle
    /\ PagesIdle
    /\ ToolsIdle

\* report.py 302-303, 324-325: the call starts with no events and page = 1
PageCall ==
    /\ pgPc.at = "idle"
    /\ \E fn \in PagedFetches : pgPc' = [fn |-> fn, at |-> "request"]
    /\ pgPage' = 1
    /\ pgItems' = 0
    /\ UNCHANGED <<mergeVars, storeVars, adapterVars, normVars, runVars, jobVars,
                   wireVars, repoVars,
                   pushVars, migVars>>

\* report.py 304-310, 326-332: `while True:` has no exit of its own; the
\* request for the page is sent, with no timeout
PageRequest ==
    /\ pgPc.at = "request"
    /\ pgPc' = [pgPc EXCEPT !.at = "response"]
    /\ UNCHANGED <<pgPage, pgItems, mergeVars, storeVars, adapterVars, normVars, runVars,
                   jobVars, wireVars, repoVars,
                   pushVars, migVars>>

\* report.py 311-321, 333-343: the answer arrives; a page with events is
\* collected and the next page is asked for, an empty page or a status other
\* than 200 ends the loop
PageResponse ==
    /\ pgPc.at = "response"
    /\ \E response \in PageAnswers :
          IF response.status_code = 200
          THEN IF response.len > 0
               THEN /\ pgItems' = Min({pgItems + response.len, MaxItems})
                    /\ pgPage' = Min({pgPage + 1, MaxPages})
                    /\ pgPc' = [pgPc EXCEPT !.at = "request"]
               ELSE /\ pgPc' = [pgPc EXCEPT !.at = "returned"]
                    /\ UNCHANGED <<pgPage, pgItems>>
          ELSE /\ pgPc' = [pgPc EXCEPT !.at = "returned"]
               /\ UNCHANGED <<pgPage, pgItems>>
    /\ UNCHANGED <<mergeVars, storeVars, adapterVars, normVars, runVars, jobVars,
                   wireVars, repoVars,
                   pushVars, migVars>>

\* requests.get raises (no connection): neither function catches it
PageRaise ==
    /\ pgPc.at = "response"
    /\ pgPc' = [pgPc EXCEPT !.at = "raised"]
    /\ UNCHANGED <<pgPage, pgItems, mergeVars, storeVars, adapterVars, normVars, runVars,
                   jobVars, wireVars, repoVars,
                   pushVars, migVars>>

PagesNext == PageCall \/ PageRequest \/ PageResponse \/ PageRaise

\* the interpreter goes on executing the function, and every request that was
\* sent is answered (or raises)
SpecPages ==
    /\ PagesInit
    /\ [][PagesNext]_vars
    /\ WF_vars(PageCall)
    /\ WF_vars(PageRequest)
    /\ WF_vars(PageResponse \/ PageRaise)

\* C20: a paginated fetch that was called comes to an end, whatever the API
\* answers: the call returns (or raises) after finitely many requests.
C20_PagedFetchEnds ==
    (pgPc.at = "request") ~> (pgPc.at \in {"returned", "raised"})

(***************************************************************************)
(* checkpush.py: the script that sorts the repositories of a CSV file into *)
(* those the token can push to and those it cannot.  The script can be run *)
(* again; the files it leaves are there at the next start.                 *)
(***************************************************************************)
MaxRows == 2
MaxScriptRuns == 2

PushRepos == {<<"alice", "a">>, <<"bob", "b">>}

\* what requests.get(url).json() gives for a repository: the repository with
\* its permissions, the repository without them, or the message of an error
\* status; "raise" stands for requests.get or response.json() raising
ApiAnswers ==
    {[raised |-> FALSE, json |-> ("name" :> "r") @@ ("permissions" :> (("pull" :> TRUE) @@ ("push" :> TRUE)))],
     [raised |-> FALSE, json |-> ("name" :> "r") @@ ("permissions" :> (("pull" :> TRUE) @@ ("push" :> FALSE)))],
     [raised |-> FALSE, json |-> ("name" :> "r") @@ ("permissions" :> ("pull" :> TRUE))],
     [raised |-> FALSE, json |-> ("message" :> "Not Found")],
     [raised |-> TRUE, json |-> ("message" :> "ConnectionError")]}

\* the rows csv.DictReader yields, each with what the API will answer for it;
\* a file lists a repository once
CsvFiles ==
    {rows \in SeqsUpTo([owner_repo : PushRepos, response : ApiAnswers], MaxRows) :
        \A i, j \in 1..Len(rows) : i # j => rows[i].owner_repo # rows[j].owner_repo}

\* response_data.get('permissions', {}).get('push', False)
PushOf(response_data) ==
    IF "permissions" \in DOMAIN response_data
    THEN IF "push" \in DOMAIN response_data["permissions"]
         THEN response_data["permissions"]["push"]
         ELSE FALSE
    ELSE FALSE

\* csv_writer.writerow([owner, repo])
CsvRow(owner, repo) == <<owner, repo>>

\* f'{owner}/{repo}\n'
TextLine(owner, repo) == <<owner, "/", repo>>

PushInit ==
    /\ MergeIdle
    /\ StoreIdle
    /\ AdapterIdle
    /\ NormIdle
    /\ RunIdle
    /\ JobIdle
    /\ WireIdle
    /\ ReposIdle
    /\ PagesIdle
    /\ MigIdle
    /\ PushIdle

\* checkpush.py 37-45: the script starts; open(access_csv, mode='w') empties
\* the CSV before the header row, the text file is not opened here
PushStart ==
    /\ cpPc \in {"idle", "done", "crashed"}
    /\ cpRuns < MaxScriptRuns
    /\ cpRuns' = cpRuns + 1
    /\ csv_file' \in CsvFiles
    /\ access_csv' = <<CsvRow("owner", "repo")>>
    /\ rowIdx' = 1
    /\ cpPc' = "loop"
    /\ UNCHANGED <<no_access_file, mergeVars, storeVars, adapterVars, normVars, runVars,
                   jobVars, wireVars, repoVars, pageVars, migVars>>

\* checkpush.py 46-47 and 20-34: check_push_access for the next row; both
\* files are opened in mode 'a'.  An exception of the request is no KeyError
\* and ends the script
CheckPushAccess ==
    /\ cpPc = "loop"
    /\ rowIdx <= Len(csv_file)
    /\ \E row \in {csv_file[rowIdx]} :
          IF row.response.raised
          THEN /\ cpPc' = "crashed"
               /\ UNCHANGED <<access_csv, no_access_file, rowIdx>>
          ELSE /\ IF ~PushOf(row.response.json)
                  THEN /\ no_access_file' =
                             Append(no_access_file, TextLine(row.owner_repo[1], row.owner_repo[2]))
                       /\ UNCHANGED access_csv
                  ELSE /\ access_csv' =
                             Append(access_csv, CsvRow(row.owner_repo[1], row.owner_repo[2]))
                       /\ UNCHANGED no_access_file
               /\ rowIdx' = rowIdx + 1
               /\ UNCHANGED cpPc
    /\ UNCHANGED <<csv_file, cpRuns, mergeVars, storeVars, adapterVars, normVars, runVars,
                   jobVars, wireVars, repoVars, pageVars, migVars>>

\* checkpush.py 51-52: the reader is exhausted
PushEnd ==
    /\ cpPc = "loop"
    /\ rowIdx > Len(csv_file)
    /\ cpPc' = "done"
    /\ UNCHANGED <<csv_file, access_csv, no_access_file, rowIdx, cpRuns,
                   mergeVars, storeVars, adapterVars, normVars, runVars,
                   jobVars, wireVars, repoVars, pageVars, migVars>>

PushNext == PushStart \/ CheckPushAccess \/ PushEnd

SpecPush == PushInit /\ [][PushNext]_vars

InAccessCsv(owner_repo) ==
    \E k \in 2..Len(access_csv) : access_csv[k] = CsvRow(owner_repo[1], owner_repo[2])

InNoAccessFile(owner_repo) ==
    \E k \in 1..Len(no_access_file) :
        no_access_file[k] = TextLine(owner_repo[1], owner_repo[2])

\* C21: when the script has ended, every row of the input CSV is in exactly
\* one of the two outputs: in the push-access CSV if and only if the answer
\* for it reports permissions.push true, otherwise in the no-access file.
C21_ExactlyOneOutput ==
    cpPc \in {"done", "crashed"} =>
        \A i \in 1..Len(csv_file) :
            /\ InAccessCsv(csv_file[i].owner_repo) # InNoAccessFile(csv_file[i].owner_repo)
            /\ ~csv_file[i].response.raised =>
                  (InAccessCsv(csv_file[i].owner_repo) <=> PushOf(csv_file[i].response.json))

(***************************************************************************)
(* migrate.py: migrate_database moves the collections of one MongoDB       *)
(* database into Cosmos containers, one pool task per collection.  A step  *)
(* of a task handles one document; the tasks share nothing but the pool.   *)
(***************************************************************************)
MaxDocs == 2
MaxMigrations == 2

\* ThreadPoolExecutor(max_workers=5)
max_workers == 5

\* retry_count = 3
retry_count == 3

\* mongo_db.list_collection_names()
Collections == {"TrafficStats", "Stars"}

\* a value json.dumps cannot serialize and convert_datetime_to_str leaves
Bytes == <<"bytes">>

\* the Date of a stored document: a datetime, or bytes
DocumentDates == {Ts(2024, 1, 1), Bytes}

\* list(mongo_collection.find()): the documents of a collection, dates given
MongoDocuments(dates) ==
    [i \in 1..Len(dates) |-> ("_id" :> Oid(i)) @@ ("Date" :> dates[i])]

\* str(ObjectId)
StrOfOid(oid) == StrV(oid[2])

\* convert_datetime_to_str on a flat document: value.isoformat()
ConvertDatetimeToStr(document) ==
    [k \in DOMAIN document |->
        IF Tag(document[k]) = "ts"
        THEN Iso(document[k][2], document[k][3], document[k][4])
        ELSE document[k]]

\* migrate.py 73-77: document["id"] = str(document["_id"]); del document["_id"]
PrepareDocument(document) ==
    ConvertDatetimeToStr(("id" :> StrOfOid(document["_id"]))
                            @@ [k \in DOMAIN document \ {"_id"} |-> document[k]])

\* validate_json of migrate.py: json.dumps raises TypeError for bytes,
\* datetime and ObjectId values
MigrateValidateJson(document) ==
    \A k \in DOMAIN document : Tag(document[k]) \notin {"bytes", "ts", "oid"}

NoDocuments == [id \in {} |-> id]

\* a document an earlier migration left in a container
OlderDocument == ("id" :> StrV(1)) @@ ("Date" :> StrV("older"))

\* a mutant of ReadItem: the lookup never finds the document
ReadItemNeverFinds(container, id) == "CosmosResourceNotFoundError"

\* cosmos_container.read_item(item=id, partition_key=id)
ReadItem(container, id) ==
    IF id \in DOMAIN container THEN "found" ELSE "CosmosResourceNotFoundError"

\* cosmos_container.upsert_item(document) when the server accepts it
ContainerUpsert(container, document) == (document["id"] :> document) @@ container

\* a mutant of Backoff: the same delay after every failed attempt
BackoffFixed(attempt) == 1

\* time.sleep(2 ** attempt)
Backoff(attempt) == 2 ^ attempt

\* migrate.py 95-105 from the given attempt (0, 1, 2) on; outcomes[a + 1] is
\* what upsert_item does at attempt a: "ok" or the exception it raises
RECURSIVE UpsertWithRetry(_, _)
UpsertWithRetry(attempt, outcomes) ==
    IF outcomes[attempt + 1] = "ok"
    THEN [attempts |-> attempt + 1, failures |-> <<>>, sleeps |-> <<>>, raised |-> "none"]
    ELSE IF outcomes[attempt + 1] # "CosmosHttpResponseError"
    THEN [attempts |-> attempt + 1, failures |-> <<outcomes[attempt + 1]>>,
          sleeps |-> <<>>, raised |-> outcomes[attempt + 1]]
    ELSE IF attempt < retry_count - 1
    THEN CHOOSE out \in
            {[rest EXCEPT !.failures = <<outcomes[attempt + 1]>> \o @,
                          !.sleeps = <<Backoff(attempt)>> \o @] :
                rest \in {UpsertWithRetry(attempt + 1, outcomes)}} : TRUE
    ELSE [attempts |-> attempt + 1, failures |-> <<outcomes[attempt + 1]>>,
          sleeps |-> <<>>, raised |-> outcomes[attempt + 1]]

\* what upsert_item can do at one attempt
UpsertOutcomes == {"ok", "CosmosHttpResponseError", "ServiceRequestError"}

\* a mutant of TaskFailed: the exception of one task stops the tasks that wait
TaskFailedStopsPool(tasks, c) ==
    [d \in DOMAIN tasks |->
        IF d = c \/ tasks[d].state = "queued"
        THEN [tasks[d] EXCEPT !.state = "failed"]
        ELSE tasks[d]]

\* migrate.py 109-112: the exception is logged inside migrate_collection, the
\* task of the collection ends and no other task hears of it
TaskFailed(tasks, c) == [tasks EXCEPT ![c].state = "failed"]

Running(tasks) == {c \in DOMAIN tasks : tasks[c].state = "running"}

Finished(tasks) == \A c \in DOMAIN tasks : tasks[c].state \in {"migrated", "failed"}

MigInit ==
    /\ MergeIdle
    /\ StoreIdle
    /\ AdapterIdle
    /\ NormIdle
    /\ RunIdle
    /\ JobIdle
    /\ WireIdle
    /\ ReposIdle
    /\ PagesIdle
    /\ PushIdle
    /\ mgPc = "idle"
    /\ mgColls \in [Collections -> {MongoDocuments(dates) :
                                       dates \in SeqsUpTo(DocumentDates, MaxDocs)}]
    /\ mgCosmos \in {[c \in Collections |-> NoDocuments],
                     [c \in Collections |-> (StrV(1) :> OlderDocument)]}
    /\ mgTask = <<>>
    /\ mgTrace = <<>>
    /\ mgRuns = 0

\* migrate.py 115-129: migrate_database is called and submits one task per
\* collection; it is called again only after a run that migrated every
\* collection.  create_database_if_not_exists may raise: no task is submitted
MigrateDatabase ==
    /\ \/ mgPc = "idle"
       \/ /\ mgPc = "returned"
          /\ DOMAIN mgTask = Collections
          /\ \A c \in Collections : mgTask[c].state = "migrated"
    /\ mgRuns < MaxMigrations
    /\ mgRuns' = mgRuns + 1
    /\ \/ /\ mgPc' = "pool"
          /\ mgTask' = [c \in Collections |-> [state |-> "queued", at |-> 1]]
          /\ mgTrace' = [c \in Collections |-> <<>>]
       \/ /\ mgPc' = "returned"
          /\ mgTask' = <<>>
          /\ mgTrace' = <<>>
    /\ UNCHANGED <<mgColls, mgCosmos, mergeVars, storeVars, adapterVars, normVars, runVars,
                   jobVars, wireVars, repoVars, pageVars, pushVars>>

\* migrate.py 56-68: a worker of the pool takes the task; the container is
\* created if it is missing (which may raise) and the documents are read
TaskStart(c) ==
    /\ mgPc = "pool"
    /\ mgTask[c].state = "queued"
    /\ Cardinality(Running(mgTask)) < max_workers
    /\ \/ /\ mgTask' = [mgTask EXCEPT ![c].state = "running"]
          /\ UNCHANGED mgTrace
       \/ /\ mgTask' = TaskFailed(mgTask, c)
          /\ mgTrace' = [mgTrace EXCEPT ![c] =
                 Append(@, [id |-> None, attempts |-> 0, failures |-> <<>>,
                            sleeps |-> <<>>, result |-> "container failed"])]
    /\ UNCHANGED <<mgColls, mgCosmos, mgRuns, mgPc,
                   mergeVars, storeVars, adapterVars, normVars, runVars,
                   jobVars, wireVars, repoVars, pageVars, pushVars>>

\* migrate.py 71-105 for the next document of the collection.  readFails:
\* read_item raises an error other than not-found
TaskDocument(c) ==
    /\ mgPc = "pool"
    /\ mgTask[c].state = "running"
    /\ mgTask[c].at <= Len(mgColls[c])
    /\ \E document \in {PrepareDocument(mgColls[c][mgTask[c].at])},
          readFails \in BOOLEAN, outcomes \in [1..retry_count -> UpsertOutcomes] :
          \E entry \in {[id |-> document["id"], attempts |-> 0, failures |-> <<>>,
                         sleeps |-> <<>>, result |-> "none"]} :
             IF ~MigrateValidateJson(document)
             THEN /\ mgTrace' = [mgTrace EXCEPT ![c] = Append(@, [entry EXCEPT !.result = "invalid"])]
                  /\ mgTask' = [mgTask EXCEPT ![c].at = @ + 1]
                  /\ UNCHANGED mgCosmos
             ELSE IF readFails
             THEN /\ mgTrace' = [mgTrace EXCEPT ![c] = Append(@, [entry EXCEPT !.result = "read failed"])]
                  /\ mgTask' = TaskFailed(mgTask, c)
                  /\ UNCHANGED mgCosmos
             ELSE IF ReadItem(mgCosmos[c], document["id"]) = "found"
             THEN /\ mgTrace' = [mgTrace EXCEPT ![c] = Append(@, [entry EXCEPT !.result = "exists"])]
                  /\ mgTask' = [mgTask EXCEPT ![c].at = @ + 1]
                  /\ UNCHANGED mgCosmos
             ELSE \E r \in {UpsertWithRetry(0, outcomes)} :
                     /\ mgTrace' = [mgTrace EXCEPT ![c] =
                            Append(@, [entry EXCEPT !.attempts = r.attempts,
                                                    !.failures = r.failures,
                                                    !.sleeps = r.sleeps,
                                                    !.result = IF r.raised = "none"
                                                               THEN "upserted" ELSE "raised"])]
                     /\ IF r.raised = "none"
                        THEN /\ mgCosmos' = [mgCosmos EXCEPT ![c] = ContainerUpsert(@, document)]
                             /\ mgTask' = [mgTask EXCEPT ![c].at = @ + 1]
                        ELSE /\ mgTask' = TaskFailed(mgTask, c)
                             /\ UNCHANGED mgCosmos
    /\ UNCHANGED <<mgColls, mgRuns, mgPc, mergeVars, storeVars, adapterVars, normVars,
                   runVars, jobVars, wireVars, repoVars, pageVars, pushVars>>

\* migrate.py 107: the documents are exhausted
TaskEnd(c) ==
    /\ mgPc = "pool"
    /\ mgTask[c].state = "running"
    /\ mgTask[c].at > Len(mgColls[c])
    /\ mgTask' = [mgTask EXCEPT ![c].state = "migrated"]
    /\ UNCHANGED <<mgColls, mgCosmos, mgTrace, mgRuns, mgPc,
                   mergeVars, storeVars, adapterVars, normVars, runVars,
                   jobVars, wireVars, repoVars, pageVars, pushVars>>

\* migrate.py 128-137: as_completed yields every future and the with block
\* waits for the pool before migrate_database goes on
PoolReturn ==
    /\ mgPc = "pool"
    /\ Finished(mgTask)
    /\ mgPc' = "returned"
    /\ UNCHANGED <<mgColls, mgCosmos, mgTask, mgTrace, mgRuns,
                   mergeVars, storeVars, adapterVars, normVars, runVars,
                   jobVars, wireVars, repoVars, pageVars, pushVars>>

MigStart == \E c \in Collections : TaskStart(c)

MigDocument == \E c \in Collections : TaskDocument(c)

MigEnd == \E c \in Collections : TaskEnd(c)

MigNext == MigrateDatabase \/ MigStart \/ MigDocument \/ MigEnd \/ PoolReturn

SpecMigrate == MigInit /\ [][MigNext]_vars

\* the entry the step of collection c added to its trace, if it added one
Handled(c) ==
    /\ mgPc = "pool"
    /\ mgPc' = "pool"
    /\ mgTask[c].state = "running"
    /\ Len(mgTrace'[c]) = Len(mgTrace[c]) + 1

\* C22: a document whose id is already in the container is skipped, no upsert
\* is attempted for it and the container stays as it was; a second migration
\* after a complete first one attempts no upsert and changes no container.
C22_ExistingDocumentsSkipped ==
    [][\A c \in Collections :
          /\ Handled(c) =>
                \A e \in {mgTrace'[c][Len(mgTrace'[c])]} :
                    e.id \in DOMAIN mgCosmos[c] =>
                        /\ e.attempts = 0
                        /\ e.result # "upserted"
                        /\ mgCosmos' = mgCosmos
          /\ mgRuns' = 2 =>
                /\ mgCosmos' = mgCosmos
                /\ c \in DOMAIN mgTrace' =>
                      \A k \in 1..Len(mgTrace'[c]) : mgTrace'[c][k].attempts = 0]_vars

\* a second migration has returned: both documents of Stars were found in
\* the container and skipped, the container still holds what the first wrote
C22_Witness ==
    /\ mgRuns = 2
    /\ mgPc = "returned"
    /\ DOMAIN mgTrace = Collections
    /\ Len(mgTrace["Stars"]) = 2
    /\ \A k \in 1..2 : mgTrace["Stars"][k].result = "exists"
    /\ mgCosmos["Stars"][StrV(2)] = ("id" :> StrV(2)) @@ ("Date" :> Iso(2024, 1, 1))

OnlyCosmosErrors(e) ==
    \A k \in 1..Len(e.failures) : e.failures[k] = "CosmosHttpResponseError"

OwnFailure(c) ==
    /\ mgTrace[c] # <<>>
    /\ mgTrace[c][Len(mgTrace[c])].result \in {"raised", "read failed", "container failed"}

\* every document of the collection that is valid JSON is in its container
AllValidMigrated(c) ==
    \A j \in 1..Len(mgColls[c]) :
        MigrateValidateJson(PrepareDocument(mgColls[c][j])) =>
            PrepareDocument(mgColls[c][j])["id"] \in DOMAIN mgCosmos[c]

\* C24: at most 5 tasks run at a time; a task fails only by an error of its
\* own collection; when migrate_database returns every task has finished,
\* and every collection without an error of its own is migrated with all of
\* its valid documents in the container of its name.
C24_FailuresStayInTheirCollection ==
    \A c \in DOMAIN mgTask :
        /\ Cardinality(Running(mgTask)) <= 5
        /\ mgTask[c].state = "failed" => OwnFailure(c)
        /\ mgTask[c].state = "migrated" => AllValidMigrated(c)
        /\ mgPc = "returned" =>
              /\ mgTask[c].state \in {"migrated", "failed"}
              /\ ~OwnFailure(c) => mgTask[c].state = "migrated"

\* migrate_database has returned; the retries of Stars were exhausted at its
\* first document while both documents of TrafficStats were migrated
C24_Witness ==
    /\ mgPc = "returned"
    /\ DOMAIN mgTask = Collections
    /\ mgTask["Stars"].state = "failed"
    /\ mgTrace["Stars"][1].result = "raised"
    /\ mgTask["TrafficStats"].state = "migrated"
    /\ Len(mgColls["TrafficStats"]) = 2
    /\ {StrV(1), StrV(2)} \subseteq DOMAIN mgCosmos["TrafficStats"]
    /\ \A k \in 1..2 : mgTrace["TrafficStats"][k].result = "upserted"

====
